---- MODULE Spec2Model ----
(***************************************************************************)
(* Access-control and subscription-state engine of the Telegram bot:       *)
(* role policy (user-roles.ts), access decision (access-control.ts), the   *)
(* SQLite user store (user-store.ts) and the private-chat message pipeline *)
(* (bot-message.ts).                                                       *)
(*                                                                         *)
(* Time is counted in ticks; DayTicks ticks make one UTC day.  A UTC date  *)
(* string "YYYY-MM-DD" is represented by the index of its day, which is    *)
(* what new Date().toISOString().split("T")[0] determines.                 *)
(***************************************************************************)
EXTENDS Integers, Sequences, FiniteSets, TLC

(***************************************************************************)
(* Program constants                                                       *)
(***************************************************************************)
TRIAL_MESSAGES_PER_DAY == 20
EXPIRED_MESSAGES_PER_DAY == 2
\* createUser: options.trialDays ?? 7
DefaultTrialDays == 7
TRIAL_BURST_STATE_MAX_USERS == 5000
\* an optional field that is null / undefined
NULL == -1
\* google-oauth.ts
GOOGLE_STATE_MAX_AGE_MS == 900000
\* verifyGoogleStateToken: the forward clock skew it tolerates, and the least maxAgeMs
StateClockSkewMs == 60000
StateMinMaxAgeMs == 60000
SUBSCRIPTION_PERIOD_DAYS == 30

(***************************************************************************)
(* Bounds of the model                                                     *)
(***************************************************************************)
\* ticks per UTC day
DayTicks == 3
\* the clock of the pure-function specification ranges over 0..AcMaxTime
AcMaxTime == 5
\* stored messagesUsedToday of an input record ranges over 0..AcMaxUsed
AcMaxUsed == 21
\* tokens passed to one incrementUsage call range over 0..MaxTokens
MaxTokens == 1
\* handler invocations that can be in flight at once
NumTasks == 2
\* handler invocations (or direct store calls) started in one run
MaxStarted == 2
\* ticks the clock advances in one run
MaxTicks == 1
\* one sender's messages handled one after the other: messages and ticks in one run
MaxSeqStarted == 22
MaxSeqTicks == 4
\* TELEGRAM_TRIAL_BURST_WINDOW_MS, TELEGRAM_TRIAL_BURST_MAX_MESSAGES and
\* TELEGRAM_TRIAL_BURST_WARN_COOLDOWN_MS as configured (window and cooldown in ticks)
BurstWindow == 2
BurstMax == 10
BurstWarnCooldown == 3
\* HTTP requests in one run of the OAuth routes, and how the clock advances there
MaxRequests == 2
OTickMs == 450000
MaxOTicks == 2
MaxOwnCalls == 3
MaxOwnTicks == 2
BurstTestMax == 2
BurstCapUsers == 2
MaxBurstTicks == 9
MaxPayTicks == 1
MaxPayUpdates == 2
\* the signature alphabet has SigBase characters; a signature is two of them
SigBase == 3
\* the issue time of the state token, in ms, and a maxAgeMs a caller may pass
TokIssuedAt == 1000000
TokCustomMaxAge == 120000
\* verification times lie within TokDelta ms of each boundary
TokDelta == 1

Roles == {"owner", "vip", "subscriber", "trial", "expired"}

VARIABLES
    \* the message pipeline and the store
    now,              \* Date.now(), in ticks
    db,               \* the users table: telegram_user_id -> row
    task,             \* the in-flight message-handling tasks and store calls
    trialBurstState,  \* the Burst Guard's Map, in insertion order
    admittedToday,    \* history: per user, the private messages that passed the access
                      \* check and were dispatched on the current UTC day
    incDone,          \* history: completed incrementUsage calls and the tokens they passed
    db0,              \* history: the users table at the start
    nStarted,         \* history: handlers and store calls started so far
    \* the pure access-decision functions applied to one input record
    acUser, acNow, acCheckedAt, acResult, acBefore, acAfter, acPhase,
    \* the OAuth state token: one token built, possibly altered, and verified
    tokIn,            \* the arguments of createGoogleStateToken
    tokState,         \* the state string presented to verifyGoogleStateToken
    tokBuilt,         \* history: how the presented string was built
    tokNow,           \* nowMs of the verification
    tokMaxAge,        \* maxAgeMs of the verification
    tokResult,        \* what verifyGoogleStateToken returned
    tokPhase,
    \* the OAuth routes of the subscription plugin
    oNow,             \* Date.now(), in ms
    oReq,             \* the HTTP request being handled, with the handler's locals
    oResp,            \* the response to the last request
    oauthTable,       \* the google_* columns of the users table: user id -> row
    oAccepted,        \* history: presentations of the issued token that passed verification
    oCount,           \* history: requests received so far
    \* owner reconciliation at startup
    ownNow,           \* Date.now(), in ticks
    ownTable,         \* the users table: telegram_user_id -> row
    ownRun,           \* the reconciliation call in progress, with its locals
    ownBefore,        \* history: the table when the call in progress or last completed began
    ownCalls,         \* history: reconciliation calls completed
    \* the Burst Guard alone, with the limits of its test
    bNow,             \* Date.now(), in ticks
    bState,           \* the Burst Guard's Map, in insertion order
    bLast,            \* the last message: who sent it, when, and the guard's answer
    bHist,            \* history: per identity, the window it is in by the arrival
                      \* times alone, the messages in it, and the last warning sent
    \* the Telegram Stars payment handlers
    payNow,           \* Date.now(), in ticks
    payTable,         \* the users table: telegram_user_id -> row
    payReq,           \* the update being handled, with the handler's locals
    payAnswer,        \* the last answerPreCheckoutQuery: "none", "approve" or "reject"
    payBefore,        \* history: the table when the update being handled arrived
    \* the user store under overlapping calls
    usNow,            \* Date.now(), in ticks
    usTable,          \* the users table: telegram_user_id -> row
    usCall,           \* the calls in flight: their arguments, locals and outcome
    usStarted,        \* the number of calls made so far
    \* the trial sweep
    swNow,            \* Date.now(), in ticks
    swTable,          \* the users table: telegram_user_id -> row
    swLast,           \* the last call of checkExpiredTrials: when, what it returned
    \* the legacy migration
    lgTable,          \* the users table: telegram_user_id -> row
    lgLegacy,         \* the content of the legacy users.json
    lgOutcome,        \* how the last operation ended
    lgImports,        \* history: how often each legacy entry was inserted
    lgOps,            \* the number of operations so far
    lgLoaded,         \* this.loaded of the current store instance
    \* configuration parsing
    pfIn,             \* the input of the function under study
    pfOut             \* its result, once computed

pipeVars == <<now, db, task, trialBurstState, admittedToday, incDone, db0, nStarted>>
acVars == <<acUser, acNow, acCheckedAt, acResult, acBefore, acAfter, acPhase>>
tokVars == <<tokIn, tokState, tokBuilt, tokNow, tokMaxAge, tokResult, tokPhase>>
oauthVars == <<oNow, oReq, oResp, oauthTable, oAccepted, oCount>>
ownVars == <<ownNow, ownTable, ownRun, ownBefore, ownCalls>>
burstVars == <<bNow, bState, bLast, bHist>>
payVars == <<payNow, payTable, payReq, payAnswer, payBefore>>
usVars == <<usNow, usTable, usCall, usStarted>>
swVars == <<swNow, swTable, swLast>>
lgVars == <<lgTable, lgLegacy, lgOutcome, lgImports, lgOps, lgLoaded>>
pfVars == <<pfIn, pfOut>>
extVars == <<tokVars, oauthVars, ownVars, burstVars, payVars, usVars, swVars, lgVars, pfVars>>
vars == <<pipeVars, acVars, extVars>>

(***************************************************************************)
(* Dates                                                                   *)
(***************************************************************************)
\* new Date().toISOString().split("T")[0]
getTodayDateString(t) == t \div DayTicks

getTomorrowDateString_plus24h(t) == t + DayTicks

\* setUTCDate(+1); setUTCHours(0,0,0,0); toISOString(): the next UTC midnight
getTomorrowDateString(t) == (t \div DayTicks + 1) * DayTicks

\* JavaScript truthiness of an optional timestamp: null, undefined and 0 are falsy
Truthy(x) == x # NULL /\ x # 0

(***************************************************************************)
(* Role policy                                                             *)
(***************************************************************************)
\* a value of type number | "unlimited"
Unlimited == [unlimited |-> TRUE, n |-> 0]
Limited(n) == [unlimited |-> FALSE, n |-> n]

getRoleMessageLimit(role) ==
    CASE role = "owner" -> Unlimited
      [] role = "vip" -> Unlimited
      [] role = "subscriber" -> Unlimited
      [] role = "trial" -> Limited(TRIAL_MESSAGES_PER_DAY)
      [] role = "expired" -> Limited(EXPIRED_MESSAGES_PER_DAY)

hasUnlimitedAccess(user) ==
    user.role = "owner" \/ user.role = "vip" \/ user.role = "subscriber"

BoundedRoles == {"trial", "expired"}

(***************************************************************************)
(* Access decision                                                         *)
(***************************************************************************)
Allow == [allowed |-> TRUE, reason |-> "none", remaining |-> NULL,
          resetsAt |-> NULL, expiresAt |-> NULL]

Deny(reason, remaining, resetsAt, expiresAt) ==
    [allowed |-> FALSE, reason |-> reason, remaining |-> remaining,
     resetsAt |-> resetsAt, expiresAt |-> expiresAt]

\* the counter that counts for day "today": the lazy daily reset
EffectiveUsed(user, t) ==
    IF user.lastMessageDate = getTodayDateString(t) THEN user.messagesUsedToday ELSE 0

canSendMessage_unlimitedFirst(user, t) ==
    IF hasUnlimitedAccess(user) THEN Allow
    ELSE IF user.role = "trial" /\ Truthy(user.trialExpiresAt) /\ t > user.trialExpiresAt
    THEN Deny("trial_expired", NULL, NULL, user.trialExpiresAt)
    ELSE IF EffectiveUsed(user, t) >= getRoleMessageLimit(user.role).n
    THEN Deny("limit_exceeded", 0, getTomorrowDateString(t), NULL)
    ELSE Allow

canSendMessage_limitFirst(user, t) ==
    IF ~hasUnlimitedAccess(user) /\ EffectiveUsed(user, t) >= getRoleMessageLimit(user.role).n
    THEN Deny("limit_exceeded", 0, getTomorrowDateString(t), NULL)
    ELSE IF user.role = "trial" /\ Truthy(user.trialExpiresAt) /\ t > user.trialExpiresAt
    THEN Deny("trial_expired", NULL, NULL, user.trialExpiresAt)
    ELSE IF user.role = "subscriber" /\ Truthy(user.subscriptionExpiresAt)
            /\ t > user.subscriptionExpiresAt
    THEN Deny("subscription_expired", NULL, NULL, user.subscriptionExpiresAt)
    ELSE Allow

canSendMessage_quotaForAll(user, t) ==
    IF user.role = "trial" /\ Truthy(user.trialExpiresAt) /\ t > user.trialExpiresAt
    THEN Deny("trial_expired", NULL, NULL, user.trialExpiresAt)
    ELSE IF user.role = "subscriber" /\ Truthy(user.subscriptionExpiresAt)
            /\ t > user.subscriptionExpiresAt
    THEN Deny("subscription_expired", NULL, NULL, user.subscriptionExpiresAt)
    ELSE IF EffectiveUsed(user, t) >= TRIAL_MESSAGES_PER_DAY
    THEN Deny("limit_exceeded", 0, getTomorrowDateString(t), NULL)
    ELSE Allow

canSendMessage_noReset(user, t) ==
    IF user.role = "trial" /\ Truthy(user.trialExpiresAt) /\ t > user.trialExpiresAt
    THEN Deny("trial_expired", NULL, NULL, user.trialExpiresAt)
    ELSE IF user.role = "subscriber" /\ Truthy(user.subscriptionExpiresAt)
            /\ t > user.subscriptionExpiresAt
    THEN Deny("subscription_expired", NULL, NULL, user.subscriptionExpiresAt)
    ELSE IF hasUnlimitedAccess(user) THEN Allow
    ELSE IF user.messagesUsedToday >= getRoleMessageLimit(user.role).n
    THEN Deny("limit_exceeded", 0, getTomorrowDateString(t), NULL)
    ELSE Allow

canSendMessage(user, t) ==
    IF user.role = "trial" /\ Truthy(user.trialExpiresAt) /\ t > user.trialExpiresAt
    THEN Deny("trial_expired", NULL, NULL, user.trialExpiresAt)
    ELSE IF user.role = "subscriber" /\ Truthy(user.subscriptionExpiresAt)
            /\ t > user.subscriptionExpiresAt
    THEN Deny("subscription_expired", NULL, NULL, user.subscriptionExpiresAt)
    ELSE IF hasUnlimitedAccess(user) THEN Allow
    ELSE IF getRoleMessageLimit(user.role).unlimited THEN Allow
    ELSE IF EffectiveUsed(user, t) >= getRoleMessageLimit(user.role).n
    THEN Deny("limit_exceeded", 0, getTomorrowDateString(t), NULL)
    ELSE Allow

Max(a, b) == IF a >= b THEN a ELSE b

getRemainingMessages(user, t) ==
    IF hasUnlimitedAccess(user) THEN Unlimited
    ELSE IF getRoleMessageLimit(user.role).unlimited THEN Unlimited
    ELSE Limited(Max(0, getRoleMessageLimit(user.role).n - EffectiveUsed(user, t)))

(***************************************************************************)
(* User store: records and the record-level effect of its operations       *)
(***************************************************************************)
\* getUser's answer for an id without a row
NoUser ==
    [present |-> FALSE, role |-> "trial", createdAt |-> 0, trialExpiresAt |-> NULL,
     subscriptionExpiresAt |-> NULL, messagesUsedToday |-> 0, lastMessageDate |-> 0,
     totalMessagesUsed |-> 0, totalTokensUsed |-> 0]

\* the row createUser inserts at time t
NewUser(role, trialDays, t) ==
    [present |-> TRUE, role |-> role, createdAt |-> t,
     trialExpiresAt |-> IF role = "trial" THEN t + trialDays * DayTicks ELSE NULL,
     subscriptionExpiresAt |-> NULL, messagesUsedToday |-> 0,
     lastMessageDate |-> getTodayDateString(t),
     totalMessagesUsed |-> 0, totalTokensUsed |-> 0]

\* a partial update; kind "none" names no field
NoUpdate == [kind |-> "none", messagesUsedToday |-> 0, totalMessagesUsed |-> 0,
             totalTokensUsed |-> 0, lastMessageDate |-> 0]

\* updateUser(id, {role: "owner", trialExpiresAt: null})
OwnerUpdate == [NoUpdate EXCEPT !.kind = "owner"]

\* updateUser(id, {role: "owner"})
RoleUpdate == [NoUpdate EXCEPT !.kind = "role"]

IncrementUpdate_noReset(user, tokensUsed, t) ==
    [kind |-> "usage",
     messagesUsedToday |-> user.messagesUsedToday + 1,
     totalMessagesUsed |-> user.totalMessagesUsed + 1,
     totalTokensUsed |-> user.totalTokensUsed + tokensUsed,
     lastMessageDate |-> getTodayDateString(t)]

\* the update incrementUsage computes from the record it read
IncrementUpdate(user, tokensUsed, t) ==
    [kind |-> "usage",
     messagesUsedToday |-> EffectiveUsed(user, t) + 1,
     totalMessagesUsed |-> user.totalMessagesUsed + 1,
     totalTokensUsed |-> user.totalTokensUsed + tokensUsed,
     lastMessageDate |-> getTodayDateString(t)]

\* { ...existing, ...updates }
MergeUpdate(existing, updates) ==
    CASE updates.kind = "usage" ->
           [existing EXCEPT !.messagesUsedToday = updates.messagesUsedToday,
                            !.totalMessagesUsed = updates.totalMessagesUsed,
                            !.totalTokensUsed = updates.totalTokensUsed,
                            !.lastMessageDate = updates.lastMessageDate]
      [] updates.kind = "owner" ->
           [existing EXCEPT !.role = "owner", !.trialExpiresAt = NULL]
      [] updates.kind = "role" ->
           [existing EXCEPT !.role = "owner"]
      [] OTHER -> existing

(***************************************************************************)
(* Burst Guard (bot-message.ts)                                            *)
(***************************************************************************)
\* Map.get: the position of the entry of currentUserId, 0 when there is none
BurstIndex(state, uid) ==
    IF \E i \in 1..Len(state) : state[i].uid = uid
    THEN CHOOSE i \in 1..Len(state) : state[i].uid = uid
    ELSE 0

\* the limits the processor reads from the environment, and the Map's cap
BurstLimits(windowMs, maxMessages, warnCooldownMs, maxUsers) ==
    [windowMs |-> windowMs, maxMessages |-> maxMessages,
     warnCooldownMs |-> warnCooldownMs, maxUsers |-> maxUsers]

PipelineBurstLimits ==
    BurstLimits(BurstWindow, BurstMax, BurstWarnCooldown, TRIAL_BURST_STATE_MAX_USERS)

RECURSIVE PruneLoop(_, _, _, _)
\* the for-of loop of pruneTrialBurstState: kept holds the entries already visited
\* and kept, rest the entries not visited yet
PruneLoop(kept, rest, t, limits) ==
    IF rest = <<>> THEN kept
    ELSE LET state == Head(rest)
             staleAfterMs == Max(limits.windowMs * 4, limits.warnCooldownMs * 2)
             lastTouch == Max(state.windowStartedAt, state.lastWarnAt)
             kept2 == IF t - lastTouch > staleAfterMs THEN kept ELSE Append(kept, state)
         IN  IF Len(kept2) + Len(Tail(rest)) <= limits.maxUsers
             THEN kept2 \o Tail(rest)
             ELSE PruneLoop(kept2, Tail(rest), t, limits)

pruneTrialBurstState(state, t, limits) ==
    IF Len(state) <= limits.maxUsers THEN state
    ELSE PruneLoop(<<>>, state, t, limits)

checkTrialBurstAllowance_warnEveryReject(state, currentUserId, t, limits) ==
    LET pruned == pruneTrialBurstState(state, t, limits)
        i == BurstIndex(pruned, currentUserId)
    IN  IF i = 0
        THEN [allowed |-> TRUE, shouldWarn |-> FALSE,
              state |-> Append(pruned, [uid |-> currentUserId, windowStartedAt |-> t,
                                        messageCount |-> 1, lastWarnAt |-> 0])]
        ELSE IF t - pruned[i].windowStartedAt >= limits.windowMs
        THEN [allowed |-> TRUE, shouldWarn |-> FALSE,
              state |-> [pruned EXCEPT ![i].windowStartedAt = t, ![i].messageCount = 1]]
        ELSE IF pruned[i].messageCount + 1 <= limits.maxMessages
        THEN [allowed |-> TRUE, shouldWarn |-> FALSE,
              state |-> [pruned EXCEPT ![i].messageCount = @ + 1]]
        ELSE [allowed |-> FALSE, shouldWarn |-> TRUE,
              state |-> [pruned EXCEPT ![i].messageCount = @ + 1, ![i].lastWarnAt = t]]

checkTrialBurstAllowance_slidingWindow(state, currentUserId, t, limits) ==
    LET pruned == pruneTrialBurstState(state, t, limits)
        i == BurstIndex(pruned, currentUserId)
    IN  IF i = 0
        THEN [allowed |-> TRUE, shouldWarn |-> FALSE,
              state |-> Append(pruned, [uid |-> currentUserId, windowStartedAt |-> t,
                                        messageCount |-> 1, lastWarnAt |-> 0])]
        ELSE IF pruned[i].messageCount + 1 <= limits.maxMessages
        THEN [allowed |-> TRUE, shouldWarn |-> FALSE,
              state |-> [pruned EXCEPT ![i].windowStartedAt = t, ![i].messageCount = @ + 1]]
        ELSE IF t - pruned[i].windowStartedAt >= limits.windowMs
        THEN [allowed |-> TRUE, shouldWarn |-> FALSE,
              state |-> [pruned EXCEPT ![i].windowStartedAt = t, ![i].messageCount = 1]]
        ELSE LET shouldWarn == t - pruned[i].lastWarnAt >= limits.warnCooldownMs
             IN  [allowed |-> FALSE, shouldWarn |-> shouldWarn,
                  state |-> [pruned EXCEPT ![i].messageCount = @ + 1,
                                           ![i].lastWarnAt = IF shouldWarn THEN t ELSE @]]

\* the answer {allowed, shouldWarn} and the Map afterwards
checkTrialBurstAllowance(state, currentUserId, t, limits) ==
    LET pruned == pruneTrialBurstState(state, t, limits)
        i == BurstIndex(pruned, currentUserId)
    IN  IF i = 0
        THEN [allowed |-> TRUE, shouldWarn |-> FALSE,
              state |-> Append(pruned, [uid |-> currentUserId, windowStartedAt |-> t,
                                        messageCount |-> 1, lastWarnAt |-> 0])]
        ELSE IF t - pruned[i].windowStartedAt >= limits.windowMs
        THEN [allowed |-> TRUE, shouldWarn |-> FALSE,
              state |-> [pruned EXCEPT ![i].windowStartedAt = t, ![i].messageCount = 1]]
        ELSE IF pruned[i].messageCount + 1 <= limits.maxMessages
        THEN [allowed |-> TRUE, shouldWarn |-> FALSE,
              state |-> [pruned EXCEPT ![i].messageCount = @ + 1]]
        ELSE LET shouldWarn == t - pruned[i].lastWarnAt >= limits.warnCooldownMs
             IN  [allowed |-> FALSE, shouldWarn |-> shouldWarn,
                  state |-> [pruned EXCEPT ![i].messageCount = @ + 1,
                                           ![i].lastWarnAt = IF shouldWarn THEN t ELSE @]]

(***************************************************************************)
(* The message pipeline (createTelegramMessageProcessor) over the store.   *)
(* A task is one invocation of the handler, or one direct call of          *)
(* UserStore.incrementUsage.  Every await is a point where other tasks     *)
(* run; a step is the code between two awaits.                             *)
(***************************************************************************)
\* two Telegram user ids: one listed in ADMIN_TELEGRAM_IDS, one not
UserIds == {"admin", "sender"}
\* parseAdminTelegramIds(process.env.ADMIN_TELEGRAM_IDS)
adminIds == {"admin"}
isAdmin(telegramUserId) == telegramUserId \in adminIds

Tasks == 1..NumTasks

\* Date.now() at the start: far enough from the epoch for lastWarnAt = 0 to be old
\* (the last tick of a UTC day)
StartTime == DayTicks * 10 + (DayTicks - 1)
MaxNow == StartTime + MaxTicks

\* accessCheck before canSendMessage has run
Unchecked == Deny("unchecked", NULL, NULL, NULL)

IdleTask ==
    [pc |-> "idle", kind |-> "none", uid |-> "none", tokens |-> 0, updates |-> NoUpdate,
     existing |-> NoUser, accessCheck |-> Unchecked, denied |-> FALSE]

\* the handler returns without dispatching
Return(t) == task' = [task EXCEPT ![t] = IdleTask]

AccessControl_countsDenied(t, user) ==
    /\ task' = [task EXCEPT ![t].pc = "inc_read",
                            ![t].accessCheck = canSendMessage(user, now),
                            ![t].denied = ~canSendMessage(user, now).allowed]
    /\ UNCHANGED trialBurstState

\* the handler from "Check if user can send message" on, for the record `user`:
\* canSendMessage, then the Burst Guard, then the call of incrementUsage
AccessControl(t, user) ==
    LET accessCheck == canSendMessage(user, now)
        burstCheck == checkTrialBurstAllowance(trialBurstState, task[t].uid, now,
                                              PipelineBurstLimits)
    IN  IF ~accessCheck.allowed
        THEN /\ task' = [task EXCEPT ![t].pc = "send_denied",
                                     ![t].accessCheck = accessCheck,
                                     ![t].denied = TRUE]
             /\ UNCHANGED trialBurstState
        ELSE IF user.role = "trial" \/ user.role = "expired"
        THEN /\ trialBurstState' = burstCheck.state
             /\ IF burstCheck.allowed
                THEN task' = [task EXCEPT ![t].pc = "inc_read",
                                          ![t].accessCheck = accessCheck]
                ELSE IF burstCheck.shouldWarn
                THEN task' = [task EXCEPT ![t].pc = "send_warn",
                                          ![t].accessCheck = accessCheck,
                                          ![t].denied = TRUE]
                ELSE Return(t)
        ELSE /\ task' = [task EXCEPT ![t].pc = "inc_read", ![t].accessCheck = accessCheck]
             /\ UNCHANGED trialBurstState

\* the catch block: log, then go on to dispatchTelegramMessage
Caught(t) == task' = [task EXCEPT ![t].pc = "dispatch"]

\* task ids are interchangeable labels: a new invocation takes the lowest free one
FirstIdle(t) ==
    /\ task[t].pc = "idle"
    /\ \A t2 \in Tasks : t2 < t => task[t2].pc # "idle"

\* a message arrives and its context is built; only private chats are gated
StartWithin(t, uid, chatType, maxStarted) ==
    /\ FirstIdle(t)
    /\ nStarted < maxStarted
    /\ nStarted' = nStarted + 1
    /\ task' = [task EXCEPT ![t] = [IdleTask EXCEPT
                  !.pc = IF chatType = "private" THEN "get" ELSE "dispatch",
                  !.kind = chatType, !.uid = uid]]
    /\ UNCHANGED <<now, db, trialBurstState, admittedToday, incDone, db0, acVars, extVars>>

Start(t, uid, chatType) == StartWithin(t, uid, chatType, MaxStarted)

GetUser_noRepair(t) ==
    /\ task[t].pc = "get"
    /\ LET user == db[task[t].uid]
       IN  IF ~user.present
           THEN task' = [task EXCEPT ![t].pc = "create"] /\ UNCHANGED trialBurstState
           ELSE AccessControl(t, user)
    /\ UNCHANGED <<now, db, admittedToday, incDone, db0, nStarted, acVars, extVars>>

\* user = await userStore.getUser(userId), and the code up to the next await
GetUser(t) ==
    /\ task[t].pc = "get"
    /\ LET user == db[task[t].uid]
       IN  IF ~user.present
           THEN task' = [task EXCEPT ![t].pc = "create"] /\ UNCHANGED trialBurstState
           ELSE IF isAdmin(task[t].uid) /\ (user.role # "owner" \/ user.trialExpiresAt # NULL)
           THEN /\ task' = [task EXCEPT ![t].pc = "upd_read", ![t].updates = OwnerUpdate]
                /\ UNCHANGED trialBurstState
           ELSE AccessControl(t, user)
    /\ UNCHANGED <<now, db, admittedToday, incDone, db0, nStarted, acVars, extVars>>

\* user = await userStore.createUser({role: adminUser ? "owner" : "trial"}):
\* the INSERT fails on an id that has a row by now
CreateUser(t) ==
    /\ task[t].pc = "create"
    /\ LET uid == task[t].uid
           row == NewUser(IF isAdmin(uid) THEN "owner" ELSE "trial", DefaultTrialDays, now)
       IN  IF db[uid].present
           THEN Caught(t) /\ UNCHANGED <<db, trialBurstState>>
           ELSE db' = [db EXCEPT ![uid] = row] /\ AccessControl(t, row)
    /\ UNCHANGED <<now, admittedToday, incDone, db0, nStarted, acVars, extVars>>

\* await bot.api.sendMessage(userId, deniedMessage | warning): it resolves, and the
\* handler returns, or it rejects, and the catch block lets the message through
SendNotice(t, delivered) ==
    /\ task[t].pc \in {"send_denied", "send_warn"}
    /\ IF delivered THEN Return(t) ELSE Caught(t)
    /\ UNCHANGED <<now, db, trialBurstState, admittedToday, incDone, db0, nStarted, acVars, extVars>>

\* UserStore.incrementUsage called directly, with its own token count
StartIncrement(t, uid, tokensUsed) ==
    /\ FirstIdle(t)
    /\ nStarted < MaxStarted
    /\ nStarted' = nStarted + 1
    /\ task' = [task EXCEPT ![t] = [IdleTask EXCEPT
                  !.pc = "inc_read", !.kind = "store", !.uid = uid, !.tokens = tokensUsed]]
    /\ UNCHANGED <<now, db, trialBurstState, admittedToday, incDone, db0, acVars, extVars>>

\* incrementUsage: user = await this.getUser(id), then the updates it computes
IncrementRead(t) ==
    /\ task[t].pc = "inc_read"
    /\ LET user == db[task[t].uid]
       IN  IF ~user.present
           THEN IF task[t].kind = "store" THEN Return(t) ELSE Caught(t)
           ELSE task' = [task EXCEPT
                    ![t].pc = "upd_read",
                    ![t].updates = IncrementUpdate(user, task[t].tokens, now)]
    /\ UNCHANGED <<now, db, trialBurstState, admittedToday, incDone, db0, nStarted, acVars, extVars>>

\* updateUser: existing = await this.getUser(id)
UpdateRead(t) ==
    /\ task[t].pc = "upd_read"
    /\ LET existing == db[task[t].uid]
       IN  IF ~existing.present
           THEN IF task[t].kind = "store" THEN Return(t) ELSE Caught(t)
           ELSE task' = [task EXCEPT ![t].pc = "upd_write", ![t].existing = existing]
    /\ UNCHANGED <<now, db, trialBurstState, admittedToday, incDone, db0, nStarted, acVars, extVars>>

UpdateWrite_dailyOnly(t) ==
    /\ task[t].pc = "upd_write"
    /\ LET uid == task[t].uid
           merged == MergeUpdate(task[t].existing, task[t].updates)
       IN  /\ db' = IF db[uid].present
                    THEN [db EXCEPT ![uid] =
                            [merged EXCEPT !.totalMessagesUsed = db[uid].totalMessagesUsed,
                                           !.totalTokensUsed = db[uid].totalTokensUsed]]
                    ELSE db
           /\ IF task[t].updates.kind = "owner"
              THEN AccessControl(t, merged) /\ UNCHANGED incDone
              ELSE /\ IF task[t].kind = "store" THEN Return(t)
                      ELSE task' = [task EXCEPT ![t].pc = "dispatch",
                                                ![t].existing = NoUser,
                                                ![t].updates = NoUpdate]
                   /\ incDone' = [incDone EXCEPT
                        ![uid].calls = @ + 1, ![uid].tokens = @ + task[t].tokens]
                   /\ UNCHANGED trialBurstState
    /\ UNCHANGED <<now, admittedToday, db0, nStarted, acVars, extVars>>

\* updateUser: merged = {...existing, ...updates}; UPDATE users SET ... WHERE id;
\* then the caller goes on: the handler after the owner repair, or after
\* incrementUsage
UpdateWrite(t) ==
    /\ task[t].pc = "upd_write"
    /\ LET uid == task[t].uid
           merged == MergeUpdate(task[t].existing, task[t].updates)
       IN  /\ db' = IF db[uid].present THEN [db EXCEPT ![uid] = merged] ELSE db
           /\ IF task[t].updates.kind = "owner"
              THEN AccessControl(t, merged) /\ UNCHANGED incDone
              ELSE /\ IF task[t].kind = "store" THEN Return(t)
                      ELSE task' = [task EXCEPT ![t].pc = "dispatch",
                                                ![t].existing = NoUser,
                                                ![t].updates = NoUpdate]
                   /\ incDone' = [incDone EXCEPT
                        ![uid].calls = @ + 1, ![uid].tokens = @ + task[t].tokens]
                   /\ UNCHANGED trialBurstState
    /\ UNCHANGED <<now, admittedToday, db0, nStarted, acVars, extVars>>

\* await dispatchTelegramMessage(...): the message reaches the agent
Dispatch(t) ==
    /\ task[t].pc = "dispatch"
    /\ admittedToday' =
         IF task[t].kind = "private" /\ ~task[t].denied
         THEN [admittedToday EXCEPT ![task[t].uid] = @ + 1]
         ELSE admittedToday
    /\ Return(t)
    /\ UNCHANGED <<now, db, trialBurstState, incDone, db0, nStarted, acVars, extVars>>

\* the clock advances; at a UTC midnight the per-day history starts again
TickUntil(maxNow) ==
    /\ now < maxNow
    /\ now' = now + 1
    /\ admittedToday' =
         IF getTodayDateString(now + 1) # getTodayDateString(now)
         THEN [u \in UserIds |-> 0] ELSE admittedToday
    /\ UNCHANGED <<db, task, trialBurstState, incDone, db0, nStarted, acVars, extVars>>

Tick == TickUntil(MaxNow)

AcIdle ==
    /\ acUser = NoUser
    /\ acNow = 0
    /\ acCheckedAt = 0
    /\ acResult = Allow
    /\ acBefore = Unlimited
    /\ acAfter = Unlimited
    /\ acPhase = "off"

TokIdle ==
    /\ tokIn = <<>>
    /\ tokState = <<>>
    /\ tokBuilt = <<>>
    /\ tokNow = 0
    /\ tokMaxAge = <<>>
    /\ tokResult = <<>>
    /\ tokPhase = "off"

OAuthIdle ==
    /\ oNow = 0
    /\ oReq = <<>>
    /\ oResp = <<>>
    /\ oauthTable = <<>>
    /\ oAccepted = 0
    /\ oCount = 0

\* the parts of the program a specification leaves out stay as they are
OwnIdle ==
    /\ ownNow = 0
    /\ ownTable = <<>>
    /\ ownRun = <<>>
    /\ ownBefore = <<>>
    /\ ownCalls = 0

BurstIdle ==
    /\ bNow = 0
    /\ bState = <<>>
    /\ bLast = <<>>
    /\ bHist = <<>>

PayIdle ==
    /\ payNow = 0
    /\ payTable = <<>>
    /\ payReq = <<>>
    /\ payAnswer = "none"
    /\ payBefore = <<>>

UsIdle ==
    /\ usNow = 0
    /\ usTable = <<>>
    /\ usCall = <<>>
    /\ usStarted = 0

SwIdle ==
    /\ swNow = 0
    /\ swTable = <<>>
    /\ swLast = <<>>

LgIdle ==
    /\ lgTable = <<>>
    /\ lgLegacy = <<>>
    /\ lgOutcome = "none"
    /\ lgImports = <<>>
    /\ lgOps = 0
    /\ lgLoaded = FALSE

PfIdle ==
    /\ pfIn = <<>>
    /\ pfOut = <<>>

ExtIdle == TokIdle /\ OAuthIdle /\ OwnIdle /\ BurstIdle /\ PayIdle /\ UsIdle /\ SwIdle /\ LgIdle /\ PfIdle

\* a row written by an earlier run of the program
Row(role, trialExpiresAt, subscriptionExpiresAt, used, day, total) ==
    [present |-> TRUE, role |-> role, createdAt |-> 1,
     trialExpiresAt |-> trialExpiresAt, subscriptionExpiresAt |-> subscriptionExpiresAt,
     messagesUsedToday |-> used, lastMessageDate |-> day,
     totalMessagesUsed |-> total, totalTokensUsed |-> 0]

Today0 == getTodayDateString(StartTime)

\* the rows the table may hold for a non-admin sender when the run starts: none;
\* a trial one message short of its limit; a trial that hit its limit yesterday; a
\* trial past its expiry; an expired-role row one message short of its limit; a
\* lapsed subscriber
SenderRows ==
    { NoUser,
      Row("trial", StartTime + 5 * DayTicks, NULL, TRIAL_MESSAGES_PER_DAY - 1, Today0, 19),
      Row("trial", StartTime + 5 * DayTicks, NULL, TRIAL_MESSAGES_PER_DAY, Today0 - 1, 25),
      Row("trial", StartTime - 1, NULL, 0, Today0 - 1, 3),
      Row("expired", StartTime - DayTicks, NULL, EXPIRED_MESSAGES_PER_DAY - 1, Today0, 40),
      Row("subscriber", NULL, StartTime - 1, 0, Today0, 7) }

\* for an admin id: none; an owner row; a row that drifted to a trial, by now
\* past its expiry; an owner row with a stale trial expiry
AdminRows ==
    { NoUser,
      Row("owner", NULL, NULL, 0, Today0, 0),
      Row("trial", StartTime - 1, NULL, 1, Today0, 1),
      Row("owner", StartTime - 1, NULL, 0, Today0, 0) }

\* the Burst Guard's Map when the run starts: empty, or a non-admin sender that has
\* used up the current window, warned just now or not yet
BurstStates ==
    { <<>> } \cup
    { << [uid |-> "sender", windowStartedAt |-> StartTime, messageCount |-> BurstMax,
          lastWarnAt |-> w] >> : w \in {0, StartTime} }

InitPipe(t0, rows, bursts) ==
    /\ now = t0
    /\ db \in rows
    /\ db0 = db
    /\ task = [t \in Tasks |-> IdleTask]
    /\ trialBurstState \in bursts
    /\ admittedToday = [u \in UserIds |-> EffectiveUsed(db[u], t0)]
    /\ incDone = [u \in UserIds |-> [calls |-> 0, tokens |-> 0]]
    /\ nStarted = 0
    /\ AcIdle
    /\ ExtIdle

\* the table when the run starts: at most one id has a row
InitTables ==
    {f \in [UserIds -> SenderRows \cup AdminRows] :
        /\ \A u \in UserIds : f[u] \in IF isAdmin(u) THEN AdminRows ELSE SenderRows
        /\ Cardinality({u \in UserIds : f[u].present}) <= 1}

Init ==
    /\ InitPipe(StartTime, InitTables, BurstStates)
    /\ trialBurstState # <<>> => db["sender"].role = "trial" /\ db["sender"].messagesUsedToday > 0

Next ==
    \/ \E t \in Tasks, uid \in UserIds, chatType \in {"private", "group"} :
          Start(t, uid, chatType)
    \/ \E t \in Tasks : GetUser(t)
    \/ \E t \in Tasks : CreateUser(t)
    \/ \E t \in Tasks, delivered \in BOOLEAN : SendNotice(t, delivered)
    \/ \E t \in Tasks : IncrementRead(t)
    \/ \E t \in Tasks : UpdateRead(t)
    \/ \E t \in Tasks : UpdateWrite(t)
    \/ \E t \in Tasks : Dispatch(t)
    \/ Tick

\* overlapping message-handling tasks for the senders
Spec == Init /\ [][Next]_vars

(***************************************************************************)
(* SpecStore: overlapping direct calls of UserStore.incrementUsage.        *)
(***************************************************************************)
InitStore == InitPipe(StartTime, InitTables, {<<>>})

NextStore ==
    \/ \E t \in Tasks, uid \in UserIds, tokensUsed \in 0..MaxTokens :
          StartIncrement(t, uid, tokensUsed)
    \/ \E t \in Tasks : IncrementRead(t)
    \/ \E t \in Tasks : UpdateRead(t)
    \/ \E t \in Tasks : UpdateWrite(t)
    \/ Tick

SpecStore == InitStore /\ [][NextStore]_vars

(***************************************************************************)
(* SpecSeq: a sender without a row sends private messages one after the    *)
(* other; each message is handled to the end before the next arrives.      *)
(***************************************************************************)
SeqStartTime == DayTicks * 10

InitSeq == InitPipe(SeqStartTime, {[u \in UserIds |-> NoUser]}, {<<>>})

SeqStart ==
    /\ \A t \in Tasks : task[t].pc = "idle"
    /\ StartWithin(1, "sender", "private", MaxSeqStarted)

SeqTick == TickUntil(SeqStartTime + MaxSeqTicks)

NextSeq ==
    \/ SeqStart
    \/ \E t \in Tasks : GetUser(t)
    \/ \E t \in Tasks : CreateUser(t)
    \/ \E t \in Tasks, delivered \in BOOLEAN : SendNotice(t, delivered)
    \/ \E t \in Tasks : IncrementRead(t)
    \/ \E t \in Tasks : UpdateRead(t)
    \/ \E t \in Tasks : UpdateWrite(t)
    \/ \E t \in Tasks : Dispatch(t)
    \/ SeqTick

SpecSeq == InitSeq /\ [][NextSeq]_vars

(***************************************************************************)
(* SpecAccess: canSendMessage, getRemainingMessages and the record-level   *)
(* effect of incrementUsage on every input record within the bounds.       *)
(* Timestamps are epoch milliseconds of real dates, hence positive.        *)
(***************************************************************************)
AcTimes == 1..AcMaxTime
AcOptTimes == {NULL} \cup AcTimes

AcUsers ==
    [present : {TRUE}, role : Roles, createdAt : {1},
     trialExpiresAt : AcOptTimes, subscriptionExpiresAt : AcOptTimes,
     messagesUsedToday : 0..AcMaxUsed,
     lastMessageDate : 0..getTodayDateString(AcMaxTime),
     totalMessagesUsed : {0}, totalTokensUsed : {0}]

PipeIdle ==
    /\ now = 0
    /\ db = <<>>
    /\ task = <<>>
    /\ trialBurstState = <<>>
    /\ admittedToday = <<>>
    /\ incDone = <<>>
    /\ db0 = <<>>
    /\ nStarted = 0

InitAccess ==
    /\ PipeIdle
    /\ ExtIdle
    /\ acUser \in AcUsers
    /\ acNow \in AcTimes
    /\ acCheckedAt = acNow
    /\ acResult = Allow
    /\ acBefore = Unlimited
    /\ acAfter = Unlimited
    /\ acPhase = "input"

\* canSendMessage(user) and getRemainingMessages(user) at Date.now() = acNow
AcCheck ==
    /\ acPhase = "input"
    /\ acResult' = canSendMessage(acUser, acNow)
    /\ acBefore' = getRemainingMessages(acUser, acNow)
    /\ acCheckedAt' = acNow
    /\ acPhase' = "checked"
    /\ UNCHANGED <<acUser, acNow, acAfter, pipeVars, extVars>>

\* time passes between the access check and the usage increment
AcTick ==
    /\ acPhase = "checked"
    /\ acNow < AcMaxTime
    /\ acNow' = acNow + 1
    /\ UNCHANGED <<acUser, acCheckedAt, acResult, acBefore, acAfter, acPhase, pipeVars, extVars>>

\* one incrementUsage on the record after an Allow, then getRemainingMessages
AcIncrement ==
    /\ acPhase = "checked"
    /\ acResult.allowed
    /\ \E tokensUsed \in 0..MaxTokens :
         acUser' = MergeUpdate(acUser, IncrementUpdate(acUser, tokensUsed, acNow))
    /\ acAfter' = getRemainingMessages(acUser', acNow)
    /\ acPhase' = "incremented"
    /\ UNCHANGED <<acNow, acCheckedAt, acResult, acBefore, pipeVars, extVars>>

NextAccess == AcCheck \/ AcTick \/ AcIncrement

SpecAccess == InitAccess /\ [][NextAccess]_vars

AcTimeExpired ==
    \/ acUser.role = "trial" /\ acUser.trialExpiresAt # NULL /\ acNow > acUser.trialExpiresAt
    \/ acUser.role = "subscriber" /\ acUser.subscriptionExpiresAt # NULL
          /\ acNow > acUser.subscriptionExpiresAt

AcJustChecked == acPhase = "checked" /\ acCheckedAt = acNow

C6_TrialExpiryFirst ==
    (AcJustChecked /\ acUser.role = "trial" /\ acUser.trialExpiresAt # NULL
       /\ acNow > acUser.trialExpiresAt) =>
        /\ ~acResult.allowed
        /\ acResult.reason = "trial_expired"
        /\ acResult.expiresAt = acUser.trialExpiresAt

\* an expired trial that is also at its daily limit today was denied trial_expired
C6_Witness ==
    /\ AcJustChecked
    /\ acUser.role = "trial" /\ acUser.trialExpiresAt # NULL
    /\ acNow > acUser.trialExpiresAt
    /\ acUser.messagesUsedToday >= TRIAL_MESSAGES_PER_DAY
    /\ acUser.lastMessageDate = acNow \div DayTicks
    /\ acResult.reason = "trial_expired"

\* C7: a subscriber record whose subscriptionExpiresAt is set and passed is
\* denied with subscription_expired; the unlimited shortcut does not let it in.
C7_SubscriptionExpiryFirst ==
    (AcJustChecked /\ acUser.role = "subscriber" /\ acUser.subscriptionExpiresAt # NULL
       /\ acNow > acUser.subscriptionExpiresAt) =>
        /\ ~acResult.allowed
        /\ acResult.reason = "subscription_expired"
        /\ acResult.expiresAt = acUser.subscriptionExpiresAt

C7_Witness ==
    /\ AcJustChecked
    /\ acUser.role = "subscriber" /\ acUser.subscriptionExpiresAt # NULL
    /\ acNow > acUser.subscriptionExpiresAt
    /\ acUser.messagesUsedToday = 0
    /\ acResult.reason = "subscription_expired"

C1_DeniedNeverDispatched ==
    \A t \in Tasks : task[t].pc = "dispatch" => ~task[t].denied

\* C2: for a user whose role has a bounded daily limit, the messages that were let
\* through and dispatched within one UTC day never exceed the role's daily limit,
\* whatever the interleaving of the tasks handling that user's messages.
C2_DailyLimitRespected ==
    \A u \in UserIds :
        (db[u].present /\ db[u].role \in BoundedRoles) =>
            admittedToday[u] <= getRoleMessageLimit(db[u].role).n

Counters(table) ==
    [u \in UserIds |-> <<table[u].messagesUsedToday, table[u].totalMessagesUsed,
                         table[u].totalTokensUsed>>]

\* a handler is inside incrementUsage
InIncrementUsage(t) ==
    /\ task[t].kind = "private"
    /\ \/ task[t].pc = "inc_read"
       \/ task[t].pc \in {"upd_read", "upd_write"} /\ task[t].updates.kind = "usage"

C3_OnlyAfterAllow ==
    \A t \in Tasks : InIncrementUsage(t) => task[t].accessCheck = Allow /\ ~task[t].denied

C3_CountersFrame ==
    Counters(db') # Counters(db) =>
        \E t \in Tasks :
            /\ task[t].pc = "upd_write" /\ task'[t] # task[t]
            /\ ~task[t].denied
            /\ task[t].updates.kind = "usage" => task[t].accessCheck = Allow

\* C3: a handler is inside incrementUsage only for a message that canSendMessage
\* allowed and the Burst Guard did not reject; a step that changes some user's
\* messagesUsedToday, totalMessagesUsed or totalTokensUsed is a store write of a
\* handler that is on no deny path (trial_expired, subscription_expired,
\* limit_exceeded, burst rejection), so the deny paths leave the counters as
\* they were.
C3_CountedOnlyAfterAllow == [][C3_OnlyAfterAllow' /\ C3_CountersFrame]_vars

\* the second of two messages of a trial sender was denied at the limit, and only
\* the first one was counted
C3_Witness ==
    \E t \in Tasks :
        /\ task[t].pc = "send_denied" /\ task[t].uid = "sender"
        /\ task[t].accessCheck.reason = "limit_exceeded"
        /\ db["sender"].messagesUsedToday = TRIAL_MESSAGES_PER_DAY
        /\ db["sender"].totalMessagesUsed = db0["sender"].totalMessagesUsed + 1
        /\ incDone["sender"].calls = 1

(***************************************************************************)
(* Overlapping incrementUsage calls (SpecStore)                            *)
(***************************************************************************)
\* C4: once all the overlapping incrementUsage calls for a user have completed,
\* totalMessagesUsed has grown by the number of completed calls, totalTokensUsed
\* by the sum of the tokens they passed and, when all of them ran on the same
\* UTC day, messagesUsedToday by the number of completed calls.
C4_NoLostUpdate ==
    \A u \in UserIds :
        (db[u].present /\ \A t \in Tasks : task[t].pc = "idle") =>
            /\ db[u].totalMessagesUsed = db0[u].totalMessagesUsed + incDone[u].calls
            /\ db[u].totalTokensUsed = db0[u].totalTokensUsed + incDone[u].tokens
            /\ getTodayDateString(now) = Today0 =>
                 EffectiveUsed(db[u], now) =
                     EffectiveUsed(db0[u], StartTime) + incDone[u].calls

(***************************************************************************)
(* One sender, one message at a time (SpecSeq)                             *)
(***************************************************************************)
\* the Burst Guard is about to reject the next message of uid
BurstFull(uid) ==
    \E i \in 1..Len(trialBurstState) :
        /\ trialBurstState[i].uid = uid
        /\ now - trialBurstState[i].windowStartedAt < BurstWindow
        /\ trialBurstState[i].messageCount >= BurstMax

\* the handler's step that decides on the message of a sender that has a row
SeqDecides == task[1].pc = "get" /\ task'[1].pc # "get" /\ db["sender"].present

SeqTrialRunning ==
    db["sender"].role = "trial" /\ now <= db["sender"].trialExpiresAt

\* the first message creates a trial record that expires in 7 days, and is let in
C9_Created ==
    (task[1].pc = "create" /\ task'[1].pc # "create") =>
        /\ db'["sender"].present
        /\ db'["sender"].role = "trial"
        /\ db'["sender"].trialExpiresAt = now + 7 * DayTicks
        /\ db'["sender"].messagesUsedToday = 0
        /\ task'[1].pc = "inc_read" /\ task'[1].accessCheck.allowed

\* the store write for an allowed message adds one to the counter of its day
C9_Counted ==
    (task[1].pc = "upd_write" /\ task'[1].pc = "dispatch") =>
        db'["sender"].messagesUsedToday =
            (IF db["sender"].lastMessageDate = db'["sender"].lastMessageDate
             THEN db["sender"].messagesUsedToday ELSE 0) + 1

\* at the limit, the next message of the same day is denied until the next midnight
C9_DeniedAtLimit ==
    (SeqDecides /\ SeqTrialRunning
       /\ db["sender"].lastMessageDate = now \div DayTicks
       /\ db["sender"].messagesUsedToday >= TRIAL_MESSAGES_PER_DAY) =>
        /\ task'[1].pc = "send_denied"
        /\ task'[1].accessCheck.reason = "limit_exceeded"
        /\ task'[1].accessCheck.resetsAt = (now \div DayTicks + 1) * DayTicks
        /\ db' = db

\* the message that opens a later day is counted as that day's first
C9_FirstOfDayCountsOne ==
    (task[1].pc = "upd_write" /\ task'[1].pc = "dispatch"
       /\ db["sender"].lastMessageDate < db'["sender"].lastMessageDate) =>
        db'["sender"].messagesUsedToday = 1

\* the message that opens the day after the limit was reached is let in
C9_NextDayAllowed ==
    (SeqDecides /\ SeqTrialRunning
       /\ db["sender"].lastMessageDate = now \div DayTicks - 1
       /\ db["sender"].messagesUsedToday >= TRIAL_MESSAGES_PER_DAY) =>
        task'[1].pc = "inc_read" /\ task'[1].accessCheck = Allow

\* ... unless the Burst Guard rejects it; canSendMessage never denies it
C9_NextDayAllowedUnlessBurst ==
    (SeqDecides /\ SeqTrialRunning /\ db["sender"].lastMessageDate < now \div DayTicks) =>
        /\ task'[1].pc # "send_denied"
        /\ ~BurstFull("sender") => task'[1].pc = "inc_read" /\ task'[1].accessCheck = Allow

Ch(k, t, n, str) == [k |-> k, t |-> t, n |-> n, s |-> str]
Dot == Ch("dot", "", 0, "")
Space == Ch("space", "", 0, "")
SigChar(n) == Ch("sig", "", n, "")
JsonNumber(k, n) == Ch(k, "number", n, "")
JsonString(k, str) == Ch(k, "string", 0, str)
JsonAbsent(k) == Ch(k, "absent", 0, "")

\* the strings of the model, and String.prototype.trim on them
TokStrings == {"", "  ", "acc", " acc "}
Trim(str) == CASE str = "  " -> "" [] str = " acc " -> "acc" [] OTHER -> str

RECURSIVE TrimStart(_)
TrimStart(raw) ==
    IF raw # <<>> /\ Head(raw) = Space THEN TrimStart(Tail(raw)) ELSE raw

RECURSIVE TrimEnd(_)
TrimEnd(raw) ==
    IF raw # <<>> /\ raw[Len(raw)] = Space THEN TrimEnd(SubSeq(raw, 1, Len(raw) - 1))
    ELSE raw

\* params.state.trim()
TrimChars(raw) == TrimEnd(TrimStart(raw))

\* raw.lastIndexOf("."), counted from 0; -1 when there is none
LastIndexOfDot(raw) ==
    IF \E i \in 1..Len(raw) : raw[i] = Dot
    THEN (CHOOSE i \in 1..Len(raw) :
             raw[i] = Dot /\ \A j \in 1..Len(raw) : raw[j] = Dot => j <= i) - 1
    ELSE -1

StrCode(str) ==
    CASE str = "" -> 0 [] str = "  " -> 1 [] str = "acc" -> 2 [] str = " acc " -> 3
      [] str = "number" -> 4 [] str = "string" -> 5 [] str = "absent" -> 6
      [] str = "v" -> 7 [] str = "uid" -> 8 [] str = "ts" -> 9 [] str = "n" -> 10
      [] str = "aid" -> 11 [] str = "hint" -> 12 [] str = "dot" -> 13
      [] str = "space" -> 14 [] str = "sig" -> 15 [] OTHER -> 16

CharCode(c) == StrCode(c.k) + StrCode(c.t) + StrCode(c.s) + c.n

RECURSIVE Digest(_, _)
Digest(chars, acc) ==
    IF chars = <<>> THEN acc
    ELSE Digest(Tail(chars), (acc * 2 + CharCode(Head(chars))) % (SigBase * SigBase))

\* createHmac("sha256", secret).update(payloadEncoded).digest("base64url")
signatureForPayload(payloadEncoded, secret) ==
    LET h == Digest(payloadEncoded, secret)
    IN  <<SigChar(h \div SigBase), SigChar(h % SigBase)>>

safeEqualStrings_lengthOnly(left, right) == Len(left) = Len(right)

\* Buffer lengths first, then timingSafeEqual
safeEqualStrings(left, right) ==
    IF Len(left) # Len(right) THEN FALSE ELSE left = right

\* the payload object; aid and hint "" stand for an absent member
StatePayload(uid, ts, n, aid, hint) ==
    [v |-> 1, uid |-> uid, ts |-> ts, n |-> n, aid |-> aid, hint |-> hint]

\* Buffer.from(JSON.stringify(payload)).toString("base64url")
EncodePayload(payload) ==
    << JsonNumber("v", payload.v), JsonNumber("uid", payload.uid),
       JsonNumber("ts", payload.ts), JsonString("n", payload.n),
       IF payload.aid # "" THEN JsonString("aid", payload.aid) ELSE JsonAbsent("aid"),
       IF payload.hint # "" THEN JsonString("hint", payload.hint) ELSE JsonAbsent("hint") >>

PayloadMembers == <<"v", "uid", "ts", "n", "aid", "hint">>

\* JSON.parse(Buffer.from(payloadEncoded, "base64url").toString("utf8")) gives an object
IsJsonObject(payloadEncoded) ==
    /\ Len(payloadEncoded) = Len(PayloadMembers)
    /\ \A i \in 1..Len(PayloadMembers) :
          /\ payloadEncoded[i].k = PayloadMembers[i]
          /\ payloadEncoded[i].t \in {"number", "string", "absent"}

NoPayload == [present |-> FALSE, payload |-> StatePayload(0, 0, "", "", "")]

\* the normalized payload, or null
parseStatePayload(payloadEncoded) ==
    IF ~IsJsonObject(payloadEncoded) THEN NoPayload
    ELSE LET v == payloadEncoded[1]
             uid == payloadEncoded[2]
             ts == payloadEncoded[3]
             n == payloadEncoded[4]
             aid == payloadEncoded[5]
             hint == payloadEncoded[6]
         IN  IF v.t # "number" \/ v.n # 1 \/ uid.t # "number" THEN NoPayload
             ELSE IF ts.t # "number" THEN NoPayload
             ELSE IF n.t # "string" \/ Trim(n.s) = "" THEN NoPayload
             ELSE [present |-> TRUE,
                   payload |-> StatePayload(uid.n, ts.n, n.s,
                       IF aid.t = "string" THEN Trim(aid.s) ELSE "",
                       IF hint.t = "string" THEN Trim(hint.s) ELSE "")]

createGoogleStateToken_unsigned(secret, telegramUserId, accountId, loginHint, nowMs, nonce) ==
    EncodePayload(StatePayload(telegramUserId, nowMs, nonce, Trim(accountId), Trim(loginHint)))
        \o <<Dot>> \o signatureForPayload(<<>>, secret)

\* `${payloadEncoded}.${signature}`; nonce is randomBytes(12).toString("hex")
createGoogleStateToken(secret, telegramUserId, accountId, loginHint, nowMs, nonce) ==
    LET payloadEncoded ==
            EncodePayload(StatePayload(telegramUserId, nowMs, nonce,
                                       Trim(accountId), Trim(loginHint)))
    IN  payloadEncoded \o <<Dot>> \o signatureForPayload(payloadEncoded, secret)

\* an optional maxAgeMs argument
NoMaxAge == [given |-> FALSE, ms |-> 0]
MaxAge(ms) == [given |-> TRUE, ms |-> ms]

VerifyOk(payload) == [ok |-> TRUE, error |-> "none", payload |-> payload]
VerifyErr(error) == [ok |-> FALSE, error |-> error, payload |-> NoPayload.payload]

\* Math.max(60_000, Math.trunc(params.maxAgeMs ?? GOOGLE_STATE_MAX_AGE_MS))
EffectiveMaxAge(maxAgeMs) ==
    Max(StateMinMaxAgeMs, IF maxAgeMs.given THEN maxAgeMs.ms ELSE GOOGLE_STATE_MAX_AGE_MS)

verifyGoogleStateToken_ageInclusive(state, secret, nowMs, maxAgeMs) ==
    LET raw == TrimChars(state)
        sep == LastIndexOfDot(raw)
        payloadEncoded == SubSeq(raw, 1, sep)
        signature == SubSeq(raw, sep + 2, Len(raw))
        parsed == parseStatePayload(payloadEncoded)
    IN  IF raw = <<>> THEN VerifyErr("missing")
     ELSE IF sep <= 0 \/ sep = Len(raw) - 1 THEN VerifyErr("invalid")
     ELSE IF ~safeEqualStrings(signature, signatureForPayload(payloadEncoded, secret))
     THEN VerifyErr("signature")
     ELSE IF ~parsed.present THEN VerifyErr("invalid")
     ELSE IF \/ parsed.payload.ts > nowMs + StateClockSkewMs
             \/ nowMs - parsed.payload.ts >= EffectiveMaxAge(maxAgeMs)
     THEN VerifyErr("expired")
     ELSE VerifyOk(parsed.payload)

verifyGoogleStateToken_parseFirst(state, secret, nowMs, maxAgeMs) ==
    LET raw == TrimChars(state)
        sep == LastIndexOfDot(raw)
        payloadEncoded == SubSeq(raw, 1, sep)
        signature == SubSeq(raw, sep + 2, Len(raw))
        parsed == parseStatePayload(payloadEncoded)
    IN  IF raw = <<>> THEN VerifyErr("missing")
     ELSE IF sep <= 0 \/ sep = Len(raw) - 1 THEN VerifyErr("invalid")
     ELSE IF ~parsed.present THEN VerifyErr("invalid")
     ELSE IF ~safeEqualStrings(signature, signatureForPayload(payloadEncoded, secret))
     THEN VerifyErr("signature")
     ELSE IF \/ parsed.payload.ts > nowMs + StateClockSkewMs
             \/ nowMs - parsed.payload.ts > EffectiveMaxAge(maxAgeMs)
     THEN VerifyErr("expired")
     ELSE VerifyOk(parsed.payload)

verifyGoogleStateToken_noClamp(state, secret, nowMs, maxAgeMs) ==
    LET raw == TrimChars(state)
        sep == LastIndexOfDot(raw)
        payloadEncoded == SubSeq(raw, 1, sep)
        signature == SubSeq(raw, sep + 2, Len(raw))
        parsed == parseStatePayload(payloadEncoded)
    IN  IF raw = <<>> THEN VerifyErr("missing")
     ELSE IF sep <= 0 \/ sep = Len(raw) - 1 THEN VerifyErr("invalid")
     ELSE IF ~safeEqualStrings(signature, signatureForPayload(payloadEncoded, secret))
     THEN VerifyErr("signature")
     ELSE IF ~parsed.present THEN VerifyErr("invalid")
     ELSE IF \/ parsed.payload.ts > nowMs + StateClockSkewMs
             \/ nowMs - parsed.payload.ts > (IF maxAgeMs.given THEN maxAgeMs.ms ELSE GOOGLE_STATE_MAX_AGE_MS)
     THEN VerifyErr("expired")
     ELSE VerifyOk(parsed.payload)

\* missing, invalid (structure), signature, invalid (payload), expired, in this order
verifyGoogleStateToken(state, secret, nowMs, maxAgeMs) ==
    LET raw == TrimChars(state)
        sep == LastIndexOfDot(raw)
        payloadEncoded == SubSeq(raw, 1, sep)
        signature == SubSeq(raw, sep + 2, Len(raw))
        parsed == parseStatePayload(payloadEncoded)
    IN  IF raw = <<>> THEN VerifyErr("missing")
     ELSE IF sep <= 0 \/ sep = Len(raw) - 1 THEN VerifyErr("invalid")
     ELSE IF ~safeEqualStrings(signature, signatureForPayload(payloadEncoded, secret))
     THEN VerifyErr("signature")
     ELSE IF ~parsed.present THEN VerifyErr("invalid")
     ELSE IF \/ parsed.payload.ts > nowMs + StateClockSkewMs
             \/ nowMs - parsed.payload.ts > EffectiveMaxAge(maxAgeMs)
     THEN VerifyErr("expired")
     ELSE VerifyOk(parsed.payload)

(***************************************************************************)
(* SpecToken: one state string is built (issued by createGoogleStateToken, *)
(* issued and then altered in its signature segment, or put together by    *)
(* hand), and verified at some time with some maxAgeMs.                    *)
(***************************************************************************)
TokSecrets == {1, 2}

TokInputs ==
    [secret : TokSecrets, uid : {42}, aid : TokStrings, hint : TokStrings,
     ts : {TokIssuedAt}, nonce : {"n1"}]

\* the verification times: around the issue time, the skew limit and each max age
TokAges ==
    { b + d : b \in {0 - StateClockSkewMs, 0, StateMinMaxAgeMs, TokCustomMaxAge,
                     GOOGLE_STATE_MAX_AGE_MS},
              d \in (0 - TokDelta)..TokDelta }

TokMaxAges ==
    { NoMaxAge, MaxAge(0 - 1), MaxAge(0), MaxAge(StateMinMaxAgeMs - 1),
      MaxAge(StateMinMaxAgeMs), MaxAge(TokCustomMaxAge) }

\* the characters a character of the token can be changed into
TokAlphabet == {SigChar(n) : n \in 0..(SigBase - 1)} \cup {Dot, Space}

Built(shape, payload, sig, pos, ch) ==
    [shape |-> shape, payload |-> payload, sig |-> sig, pos |-> pos, ch |-> ch]

InitToken ==
    /\ PipeIdle
    /\ AcIdle
    /\ OAuthIdle
    /\ OwnIdle
    /\ BurstIdle
    /\ PayIdle
    /\ UsIdle
    /\ SwIdle
    /\ LgIdle
    /\ PfIdle
    /\ tokIn \in TokInputs
    /\ tokState = <<>>
    /\ tokBuilt = Built("none", "none", "none", 0, Space)
    /\ tokNow = 0
    /\ tokMaxAge = NoMaxAge
    /\ tokResult = VerifyErr("none")
    /\ tokPhase = "input"

\* the /google command issues the token
TokCreate ==
    /\ tokPhase = "input"
    /\ tokState' = createGoogleStateToken(tokIn.secret, tokIn.uid, tokIn.aid, tokIn.hint,
                                          tokIn.ts, tokIn.nonce)
    /\ tokBuilt' = Built("token", "valid", "good", 0, Space)
    /\ tokPhase' = "token"
    /\ UNCHANGED <<tokIn, tokNow, tokMaxAge, tokResult, pipeVars, acVars, oauthVars, ownVars, burstVars, payVars, usVars, swVars, lgVars, pfVars>>

\* one character of the signature segment of an issued token is changed into another
TokTamperSignature(pos, ch) ==
    /\ tokPhase = "token"
    /\ tokBuilt = Built("token", "valid", "good", 0, Space)
    /\ LET first == LastIndexOfDot(tokState) + 2
       IN  /\ first + pos - 1 <= Len(tokState)
           /\ tokState[first + pos - 1] # ch
           /\ tokState' = [tokState EXCEPT ![first + pos - 1] = ch]
    /\ tokBuilt' = Built("token", "valid", "tampered", pos, ch)
    /\ UNCHANGED <<tokIn, tokNow, tokMaxAge, tokResult, tokPhase, pipeVars, acVars, oauthVars, ownVars, burstVars, payVars, usVars, swVars, lgVars, pfVars>>

\* the payload text somebody puts into a state string
ForgedPayload(in, payload) ==
    LET good == EncodePayload(StatePayload(in.uid, in.ts, in.nonce,
                                           Trim(in.aid), Trim(in.hint)))
    IN  CASE payload = "bad_v" -> [good EXCEPT ![1] = JsonNumber("v", 2)]
          [] payload = "bad_uid" -> [good EXCEPT ![2] = JsonString("uid", "acc")]
          [] payload = "bad_ts" -> [good EXCEPT ![3] = JsonAbsent("ts")]
          [] payload = "bad_n" -> [good EXCEPT ![4] = JsonString("n", "  ")]
          [] payload = "broken" -> SubSeq(good, 1, 3)
          [] OTHER -> good

\* its signature: the HMAC under the secret, or something else of the same length
ForgedSignature(payloadEncoded, secret, sig) ==
    LET good == signatureForPayload(payloadEncoded, secret)
    IN  IF sig = "good" THEN good
        ELSE [good EXCEPT ![1] = SigChar((good[1].n + 1) % SigBase)]

ForgedState(shape, payloadEncoded, signature) ==
    CASE shape = "blank" -> <<Space, Space>>
      [] shape = "no_separator" -> payloadEncoded \o signature
      [] shape = "empty_payload" -> <<Dot>> \o signature
      [] shape = "empty_signature" -> payloadEncoded \o <<Dot>>
      [] OTHER -> <<Space>> \o payloadEncoded \o <<Dot>> \o signature \o <<Space>>

TokShapes == {"token", "blank", "no_separator", "empty_payload", "empty_signature"}
TokPayloads == {"valid", "bad_v", "bad_uid", "bad_ts", "bad_n", "broken"}

\* a state string that createGoogleStateToken did not issue reaches a route
TokForge(shape, payload, sig) ==
    /\ tokPhase = "input"
    /\ LET payloadEncoded == ForgedPayload(tokIn, payload)
       IN  tokState' = ForgedState(shape, payloadEncoded,
                                   ForgedSignature(payloadEncoded, tokIn.secret, sig))
    /\ tokBuilt' = Built(shape, payload, sig, 0, Space)
    /\ tokPhase' = "token"
    /\ UNCHANGED <<tokIn, tokNow, tokMaxAge, tokResult, pipeVars, acVars, oauthVars, ownVars, burstVars, payVars, usVars, swVars, lgVars, pfVars>>

\* verifyGoogleStateToken({state, secret, nowMs, maxAgeMs}), age ms after the issue time
TokVerify(age, maxAgeMs) ==
    /\ tokPhase = "token"
    /\ tokNow' = tokIn.ts + age
    /\ tokMaxAge' = maxAgeMs
    /\ tokResult' = verifyGoogleStateToken(tokState, tokIn.secret, tokIn.ts + age, maxAgeMs)
    /\ tokPhase' = "verified"
    /\ UNCHANGED <<tokIn, tokState, tokBuilt, pipeVars, acVars, oauthVars, ownVars, burstVars, payVars, usVars, swVars, lgVars, pfVars>>

NextToken ==
    \/ TokCreate
    \/ \E pos \in 1..2, ch \in TokAlphabet : TokTamperSignature(pos, ch)
    \/ \E shape \in TokShapes, payload \in TokPayloads, sig \in {"good", "wrong"} :
          TokForge(shape, payload, sig)
    \/ \E age \in TokAges, maxAgeMs \in TokMaxAges : TokVerify(age, maxAgeMs)

SpecToken == InitToken /\ [][NextToken]_vars

\* the verified string is a token as createGoogleStateToken issues it (the transport
\* may have put blanks around it)
TokIssued == tokPhase = "verified" /\ tokBuilt = Built("token", "valid", "good", 0, Space)

TokAge == tokNow - tokIn.ts

\* C11: a token issued by createGoogleStateToken and verified with the same secret at
\* any time now with 0 <= now - t <= maxAge (the maxAgeMs passed, or the default when
\* none is passed) is accepted, and the payload returned carries the original user
\* id, and the trimmed accountId and loginHint (absent when they trim to nothing).
C11_RoundTrip ==
    (TokIssued /\ TokAge >= 0
       /\ TokAge <= (IF tokMaxAge.given THEN tokMaxAge.ms ELSE GOOGLE_STATE_MAX_AGE_MS)) =>
        /\ tokResult.ok
        /\ tokResult.payload.uid = tokIn.uid
        /\ tokResult.payload.ts = tokIn.ts
        /\ tokResult.payload.aid = Trim(tokIn.aid)
        /\ tokResult.payload.hint = Trim(tokIn.hint)

\* a token issued with a padded accountId and a blank loginHint came back with the
\* trimmed accountId and no hint, at an age of the full default max age
C11_Witness ==
    /\ TokIssued /\ tokResult.ok
    /\ ~tokMaxAge.given /\ TokAge = GOOGLE_STATE_MAX_AGE_MS
    /\ tokIn.aid = " acc " /\ tokResult.payload.aid = "acc"
    /\ tokIn.hint = "  " /\ tokResult.payload.hint = ""
    /\ tokResult.payload.uid = 42

TokSigTampered == tokPhase = "verified" /\ tokBuilt.sig = "tampered"

\* C12 as stated: every change of one character of the signature segment of a valid
\* token, at every position and to every other character, makes verification
\* return Err(signature).
C12_TamperYieldsSignature_AsStated ==
    TokSigTampered => ~tokResult.ok /\ tokResult.error = "signature"

\* C12, amended: every change of one character of the signature segment of a valid
\* token makes verification fail: with Err(invalid) when the last character is
\* changed into the separator "." (the signature segment after the last separator
\* is then empty), and with Err(signature) in every other case.
C12_TamperRejected ==
    TokSigTampered =>
        /\ ~tokResult.ok
        /\ tokResult.error =
             IF tokBuilt.pos = 2 /\ tokBuilt.ch = Dot THEN "invalid" ELSE "signature"

\* the first character of the signature was changed into ".", within the max age
C12_Witness ==
    /\ TokSigTampered /\ tokBuilt.pos = 1 /\ tokBuilt.ch = Dot
    /\ TokAge = 0
    /\ tokResult.error = "signature"

\* C13: a correctly signed token issued at t and verified with a max age A of at
\* least 60 s (passed, or the default) is Err(expired) at now = t + A + 1 ms and Ok
\* at now = t + A - 1 ms; for a token that is not from the future beyond the clock
\* skew, the result is Err(expired) exactly when now - t > A, and Ok otherwise.
C13_ExpiryBoundary ==
    (TokIssued /\ (tokMaxAge.given => tokMaxAge.ms >= 60000) /\ TokAge >= 0 - 60000) =>
        LET A == IF tokMaxAge.given THEN tokMaxAge.ms ELSE 15 * 60 * 1000
        IN  IF TokAge > A
            THEN ~tokResult.ok /\ tokResult.error = "expired"
            ELSE tokResult.ok

\* a token verified with maxAgeMs = 120 000 exactly at age 120 000 ms was accepted
C13_Witness ==
    /\ TokIssued /\ tokMaxAge = MaxAge(TokCustomMaxAge)
    /\ TokAge = TokCustomMaxAge
    /\ tokResult.ok

\* C14: verification reports the first failing check in the order missing,
\* invalid (structure), signature, invalid (payload schema), expired: a blank
\* string gives missing; a string without separator, or with an empty payload or
\* signature segment, gives invalid; a wrong signature gives signature whatever the
\* payload and the time; a correctly signed payload that fails the schema gives
\* invalid whatever the time.
C14_FirstFailingCheck ==
    (tokPhase = "verified" /\ tokBuilt.sig # "tampered") =>
        /\ ~tokResult.ok \/ (tokBuilt.shape = "token" /\ tokBuilt.payload = "valid"
                               /\ tokBuilt.sig = "good")
        /\ tokBuilt.shape = "blank" => tokResult.error = "missing"
        /\ tokBuilt.shape \in {"no_separator", "empty_payload", "empty_signature"} =>
             tokResult.error = "invalid"
        /\ (tokBuilt.shape = "token" /\ tokBuilt.sig = "wrong") =>
             tokResult.error = "signature"
        /\ (tokBuilt.shape = "token" /\ tokBuilt.sig = "good"
              /\ tokBuilt.payload # "valid") => tokResult.error = "invalid"

\* a string with a wrong signature, a payload that is no JSON object and an age
\* beyond every max age was answered with signature
C14_Witness ==
    /\ tokPhase = "verified"
    /\ tokBuilt.shape = "token" /\ tokBuilt.sig = "wrong" /\ tokBuilt.payload = "broken"
    /\ TokAge > 15 * 60 * 1000
    /\ tokResult.error = "signature"

\* C15: a correctly signed token whose issue time is more than 60 000 ms after now
\* is Err(expired), one whose issue time is at most 60 000 ms after now is accepted;
\* a maxAgeMs below 60 000 (0 and negative values included) works as 60 000, so a
\* token younger than 60 s is never rejected as expired.
C15_SkewAndClamp ==
    TokIssued =>
        /\ TokAge < 0 - 60000 => (~tokResult.ok /\ tokResult.error = "expired")
        /\ (TokAge >= 0 - 60000 /\ TokAge <= 0) => tokResult.ok
        /\ (tokMaxAge.given /\ tokMaxAge.ms < 60000 /\ TokAge >= 0) =>
             (tokResult.ok <=> TokAge <= 60000)
        /\ (TokAge >= 0 /\ TokAge < 60000) => tokResult.ok

\* with maxAgeMs = 0 a token of age 59 999 ms was accepted
C15_Witness ==
    /\ TokIssued /\ tokMaxAge = MaxAge(0)
    /\ TokAge = 59999
    /\ tokResult.ok

(***************************************************************************)
(* SpecOAuth: the start and callback routes of the subscription plugin     *)
(* (index.ts), one request at a time.  The callback handler awaits the     *)
(* code exchange, the profile lookup, the store and the Telegram notice.   *)
(***************************************************************************)
OUids == {42, 7}

\* what the /google command passed to createGoogleStateToken for user uid; the
\* secret is config.stateSecret
OIssue(uid) ==
    [secret |-> 1, uid |-> uid, aid |-> "acc", hint |-> "", ts |-> TokIssuedAt,
     nonce |-> "n1"]

OToken(uid) ==
    createGoogleStateToken(OIssue(uid).secret, uid, OIssue(uid).aid, OIssue(uid).hint,
                           OIssue(uid).ts, OIssue(uid).nonce)

OIssuedTokens == {OToken(uid) : uid \in OUids}

\* the state parameter of a request: an issued token, one with another signature, none
OStates ==
    OIssuedTokens
      \cup {ForgedState("token", ForgedPayload(OIssue(42), "valid"),
                        ForgedSignature(ForgedPayload(OIssue(42), "valid"), 1, "wrong"))}
      \cup {<<>>}

Page(status, title, message) == [status |-> status, title |-> title, message |-> message]
NoPage == Page(0, "", "")

mapStateErrorToMessage(error) ==
    CASE error = "missing" -> "Missing OAuth state."
      [] error = "expired" -> "OAuth session expired. Please restart with /google."
      [] error = "signature" -> "Invalid OAuth state signature."
      [] OTHER -> "Invalid OAuth state payload."

\* GoogleTokenExchangeResult; the id token is a JWT with an e-mail claim, a JWT
\* without one, no JWT at all, or absent ("")
IdTokens == {"", "jwt_email", "jwt_plain", "garbage"}
NoTokens == [accessToken |-> "", idToken |-> ""]

extractEmailFromIdToken(idToken) ==
    IF idToken = "jwt_email" THEN "id@example.com" ELSE ""

IdleReq ==
    [pc |-> "idle", route |-> "none", method |-> "", cfgOk |-> FALSE, state |-> <<>>,
     error |-> "", code |-> "", at |-> 0, verified |-> VerifyErr("none"),
     exchange |-> "none", tokens |-> NoTokens, profile |-> "none", email |-> ""]

\* a row of the users table as far as the plugin's store writes it
NoLink ==
    [present |-> FALSE, role |-> "trial", linked |-> FALSE, email |-> "",
     accessToken |-> "", connectedAt |-> 0]

\* SubscriptionStore.upsertGoogleOAuth: INSERT a trial row with the identity, or
\* UPDATE the identity columns of the row there is
upsertGoogleOAuth(table, telegramUserId, email, accessToken, t) ==
    IF ~table[telegramUserId].present
    THEN [table EXCEPT ![telegramUserId] =
            [present |-> TRUE, role |-> "trial", linked |-> TRUE, email |-> email,
             accessToken |-> accessToken, connectedAt |-> t]]
    ELSE [table EXCEPT ![telegramUserId].linked = TRUE,
                       ![telegramUserId].email = email,
                       ![telegramUserId].accessToken = accessToken,
                       ![telegramUserId].connectedAt = t]

InitOAuth ==
    /\ PipeIdle
    /\ AcIdle
    /\ TokIdle
    /\ OwnIdle
    /\ BurstIdle
    /\ PayIdle
    /\ UsIdle
    /\ SwIdle
    /\ LgIdle
    /\ PfIdle
    /\ oNow = TokIssuedAt
    /\ oReq = IdleReq
    /\ oResp = NoPage
    /\ oauthTable = [uid \in OUids |->
                        IF uid = 42 THEN NoLink
                        ELSE [NoLink EXCEPT !.present = TRUE, !.role = "owner"]]
    /\ oAccepted = 0
    /\ oCount = 0

\* a request arrives when the previous one has been answered
Request(route, method, cfgOk, state, error, code) ==
    [IdleReq EXCEPT !.route = route, !.method = method, !.cfgOk = cfgOk,
                    !.state = state, !.error = error, !.code = code, !.at = oNow]

\* the synchronous head both routes share: method, configuration, state token
RouteHead(method, cfgOk, verified) ==
    IF method # "GET" THEN Page(405, "Method Not Allowed", "")
    ELSE IF ~cfgOk THEN Page(500, "Google OAuth Not Configured", "")
    ELSE IF ~verified.ok
    THEN Page(400, "Invalid OAuth Session", mapStateErrorToMessage(verified.error))
    ELSE NoPage

\* the number of times a token this server issued was presented and verified
Accepted(req, page) ==
    IF page = NoPage /\ req.state \in OIssuedTokens THEN oAccepted + 1 ELSE oAccepted

\* the start route: 302 to Google's consent page for a verified state
StartRequest(method, cfgOk, state) ==
    LET verified == verifyGoogleStateToken(TrimChars(state), OIssue(42).secret, oNow, NoMaxAge)
        page == RouteHead(method, cfgOk, verified)
        req == Request("start", method, cfgOk, state, "", "")
    IN  /\ oReq.pc \in {"idle", "done"}
        /\ oCount < MaxRequests
        /\ oCount' = oCount + 1
        /\ oReq' = [req EXCEPT !.pc = "done",
                               !.verified = IF method = "GET" /\ cfgOk THEN verified
                                            ELSE VerifyErr("none")]
        /\ oResp' = IF page = NoPage THEN Page(302, "", "") ELSE page
        /\ oAccepted' = Accepted(req, page)
        /\ UNCHANGED <<oNow, oauthTable, pipeVars, acVars, tokVars, ownVars, burstVars, payVars, usVars, swVars, lgVars, pfVars>>

\* the callback route up to its first await, given the verification result
CallbackArrives(method, cfgOk, state, error, code, verified) ==
    LET page == RouteHead(method, cfgOk, verified)
        req == Request("callback", method, cfgOk, state, error, code)
        checked == [req EXCEPT !.verified = IF method = "GET" /\ cfgOk THEN verified
                                            ELSE VerifyErr("none")]
    IN  /\ oReq.pc \in {"idle", "done"}
        /\ oCount < MaxRequests
        /\ oCount' = oCount + 1
        /\ oAccepted' = Accepted(req, page)
        /\ IF page # NoPage
           THEN oReq' = [checked EXCEPT !.pc = "done"] /\ oResp' = page
           ELSE IF error # ""
           THEN oReq' = [checked EXCEPT !.pc = "error_notice"] /\ oResp' = NoPage
           ELSE IF code = ""
           THEN /\ oReq' = [checked EXCEPT !.pc = "done"]
                /\ oResp' = Page(400, "Google OAuth Failed", "Missing authorization code.")
           ELSE oReq' = [checked EXCEPT !.pc = "exchange"] /\ oResp' = NoPage
        /\ UNCHANGED <<oNow, oauthTable, pipeVars, acVars, tokVars, ownVars, burstVars, payVars, usVars, swVars, lgVars, pfVars>>

CallbackRequest_singleUse(method, cfgOk, state, error, code) ==
    CallbackArrives(method, cfgOk, state, error, code,
        IF oAccepted > 0 THEN VerifyErr("invalid")
        ELSE verifyGoogleStateToken(TrimChars(state), OIssue(42).secret, oNow, NoMaxAge))

CallbackRequest(method, cfgOk, state, error, code) ==
    CallbackArrives(method, cfgOk, state, error, code,
        verifyGoogleStateToken(TrimChars(state), OIssue(42).secret, oNow, NoMaxAge))

ExchangeDone_failOpen(ok, idToken) ==
    /\ oReq.pc = "exchange"
    /\ oReq' = [oReq EXCEPT !.pc = "profile",
                            !.exchange = IF ok THEN "ok" ELSE "failed",
                            !.tokens = [accessToken |-> "at", idToken |-> idToken]]
    /\ UNCHANGED <<oNow, oResp, oauthTable, oAccepted, oCount, pipeVars, acVars, tokVars, ownVars, burstVars, payVars, usVars, swVars, lgVars, pfVars>>

\* await exchangeGoogleAuthorizationCode: tokens, or a throw into the catch block
ExchangeDone(ok, idToken) ==
    /\ oReq.pc = "exchange"
    /\ oReq' = IF ok
               THEN [oReq EXCEPT !.pc = "profile", !.exchange = "ok",
                                 !.tokens = [accessToken |-> "at", idToken |-> idToken]]
               ELSE [oReq EXCEPT !.pc = "fail_notice", !.exchange = "failed"]
    /\ UNCHANGED <<oNow, oResp, oauthTable, oAccepted, oCount, pipeVars, acVars, tokVars, ownVars, burstVars, payVars, usVars, swVars, lgVars, pfVars>>

\* await fetchGoogleAccountEmail: an address, or undefined on any failure
ProfileDone(ok) ==
    /\ oReq.pc = "profile"
    /\ oReq' = [oReq EXCEPT !.pc = "upsert",
                            !.profile = IF ok THEN "ok" ELSE "failed",
                            !.email = IF ok THEN "user@example.com"
                                      ELSE extractEmailFromIdToken(oReq.tokens.idToken)]
    /\ UNCHANGED <<oNow, oResp, oauthTable, oAccepted, oCount, pipeVars, acVars, tokVars, ownVars, burstVars, payVars, usVars, swVars, lgVars, pfVars>>

\* await store.upsertGoogleOAuth: the write, or a throw into the catch block
Upsert(ok) ==
    /\ oReq.pc = "upsert"
    /\ IF ok
       THEN /\ oauthTable' = upsertGoogleOAuth(oauthTable, oReq.verified.payload.uid,
                                               oReq.email, oReq.tokens.accessToken, oNow)
            /\ oReq' = [oReq EXCEPT !.pc = "ok_notice"]
       ELSE /\ oReq' = [oReq EXCEPT !.pc = "fail_notice"]
            /\ UNCHANGED oauthTable
    /\ UNCHANGED <<oNow, oResp, oAccepted, oCount, pipeVars, acVars, tokVars, ownVars, burstVars, payVars, usVars, swVars, lgVars, pfVars>>

\* await sendTelegramNotice (never throws), then the page
NoticeSent ==
    /\ oReq.pc \in {"error_notice", "ok_notice", "fail_notice"}
    /\ oReq' = [oReq EXCEPT !.pc = "done"]
    /\ oResp' = CASE oReq.pc = "error_notice" -> Page(400, "Google OAuth Failed", oReq.error)
                  [] oReq.pc = "ok_notice" ->
                       Page(200, "Google Connected",
                            IF oReq.email # "" THEN "connected with email" ELSE "connected")
                  [] OTHER ->
                       Page(500, "Google OAuth Failed",
                            "OAuth callback processing failed. Please run /google again.")
    /\ UNCHANGED <<oNow, oauthTable, oAccepted, oCount, pipeVars, acVars, tokVars, ownVars, burstVars, payVars, usVars, swVars, lgVars, pfVars>>

\* Date.now() moves on
OTick ==
    /\ oNow < TokIssuedAt + MaxOTicks * OTickMs
    /\ oNow' = oNow + OTickMs
    /\ UNCHANGED <<oReq, oResp, oauthTable, oAccepted, oCount, pipeVars, acVars, tokVars, ownVars, burstVars, payVars, usVars, swVars, lgVars, pfVars>>

OMethods == {"GET", "POST"}
OErrors == {"", "access_denied"}
OCodes == {"", "code"}

NextOAuth ==
    \/ \E method \in OMethods, cfgOk \in BOOLEAN, state \in OStates :
          StartRequest(method, cfgOk, state)
    \/ \E method \in OMethods, cfgOk \in BOOLEAN, state \in OStates,
          error \in OErrors, code \in OCodes :
          CallbackRequest(method, cfgOk, state, error, code)
    \/ \E ok \in BOOLEAN, idToken \in IdTokens : ExchangeDone(ok, idToken)
    \/ \E ok \in BOOLEAN : ProfileDone(ok)
    \/ \E ok \in BOOLEAN : Upsert(ok)
    \/ NoticeSent
    \/ OTick

SpecOAuth == InitOAuth /\ [][NextOAuth]_vars

(***************************************************************************)
(* Claims about the OAuth routes, checked under SpecOAuth.                 *)
(***************************************************************************)
RetryPage ==
    Page(500, "Google OAuth Failed",
         "OAuth callback processing failed. Please run /google again.")

C16_PersistsOnlyVerified ==
    oauthTable' # oauthTable =>
        /\ oReq.route = "callback"
        /\ oReq.method = "GET"
        /\ verifyGoogleStateToken(oReq.state, OIssue(42).secret, oReq.at, NoMaxAge).ok
        /\ oReq.error = ""
        /\ oReq.code # ""
        /\ oReq.exchange = "ok"
        /\ \A uid \in OUids :
              oauthTable'[uid] # oauthTable[uid] =>
                 /\ uid = parseStatePayload(
                             SubSeq(oReq.state, 1, LastIndexOfDot(oReq.state))).payload.uid
                 /\ oauthTable'[uid].linked
                 /\ oauthTable'[uid].email = oReq.email

C16_FailedExchangePersistsNothing ==
    (oReq.exchange = "failed" \/ oReq'.exchange = "failed") =>
        /\ oauthTable' = oauthTable
        /\ (oReq.exchange = "failed" /\ oReq'.pc = "done" /\ oReq.pc # "done")
              => oResp' = RetryPage

C16_FailedProfileContinues ==
    (oReq.pc = "profile" /\ oReq'.profile = "failed") =>
        /\ oReq'.pc = "upsert"
        /\ oReq'.email = (IF oReq.tokens.idToken = "jwt_email" THEN "id@example.com" ELSE "")

\* C16: the callback route writes to the store only for a GET request whose
\* state token verifies, that carries no error parameter and a non-empty code,
\* and whose code exchange succeeded; the row written is the one of the uid in
\* the token.  A failed exchange writes nothing and answers with the generic
\* retry page; a failed profile lookup goes on to the write with the e-mail of
\* the id token, or with none.
C16_CallbackPersistence ==
    [][C16_PersistsOnlyVerified /\ C16_FailedExchangePersistsNothing
         /\ C16_FailedProfileContinues]_vars

\* a link written for user 7 after a failed profile lookup, by a request made of
\* user 7's token, while user 42's row is as it was
C16_Witness ==
    /\ oReq.pc = "ok_notice"
    /\ oReq.state = OToken(7)
    /\ oReq.profile = "failed"
    /\ oauthTable[7].linked
    /\ oauthTable[7].email = "id@example.com"
    /\ ~oauthTable[42].linked

\* C17: verification keeps no record of the tokens it has seen.  Every GET
\* request (to either route, with the configuration resolved) that presents an
\* issued token no later than GOOGLE_STATE_MAX_AGE_MS after its issue passes
\* verification with the payload that was signed, however many earlier requests
\* presented it and whether or not one of them already linked an account.
C17_Arrival ==
    /\ oCount' = oCount + 1
    /\ oReq'.method = "GET"
    /\ oReq'.cfgOk
    /\ oReq'.state \in OIssuedTokens
    /\ oNow - TokIssuedAt <= GOOGLE_STATE_MAX_AGE_MS

C17_Passes ==
    /\ \E uid \in OUids :
          /\ oReq'.state = OToken(uid)
          /\ oReq'.verified = VerifyOk(StatePayload(uid, OIssue(uid).ts, OIssue(uid).nonce,
                                                    OIssue(uid).aid, OIssue(uid).hint))
    /\ oAccepted' = oAccepted + 1
    /\ oResp'.title # "Invalid OAuth Session"

C17_StatelessVerification == [][C17_Arrival => C17_Passes]_vars

\* the token that linked user 42's account is accepted once more
C17_Witness ==
    /\ oauthTable[42].linked
    /\ oAccepted = MaxRequests
    /\ oReq.state = OToken(42)
    /\ oReq.route = "callback"
    /\ oReq.pc = "exchange"

(***************************************************************************)
(* Reactive owner repair, checked under Spec.                              *)
(***************************************************************************)
Drifted(user) == user.present /\ (user.role # "owner" \/ user.trialExpiresAt # NULL)

\* the step in which the handler of task t evaluates canSendMessage
Decides(t) == task[t].accessCheck = Unchecked /\ task'[t].accessCheck # Unchecked

\* C18: when the handler of a message from an admin id evaluates canSendMessage,
\* the persisted record of that id has role owner and no trial expiry, whatever
\* it was when the message arrived, and the decision is Allow.
C18_RepairBeforeDecision ==
    [][\A t \in Tasks :
          (Decides(t) /\ isAdmin(task[t].uid)) =>
             /\ db'[task[t].uid].present
             /\ ~Drifted(db'[task[t].uid])
             /\ task'[t].accessCheck = Allow]_vars

\* an admin whose row had drifted to an expired trial is past the decision,
\* allowed, on the repaired row
C18_Witness ==
    \E t \in Tasks :
       /\ isAdmin(task[t].uid)
       /\ task[t].pc = "inc_read"
       /\ task[t].accessCheck = Allow
       /\ db0[task[t].uid].present
       /\ db0[task[t].uid].role = "trial"
       /\ db0[task[t].uid].trialExpiresAt # NULL
       /\ db0[task[t].uid].trialExpiresAt < StartTime
       /\ ~Drifted(db[task[t].uid])

(***************************************************************************)
(* SpecOwners: owner reconciliation at startup, by initializeOwners        *)
(* (owner-config.ts) over the user store or by ensureOwnerUsers            *)
(* (subscription/store.ts) over the same users table.                      *)
(***************************************************************************)
\* ADMIN_TELEGRAM_IDS, parsed, and a user that is not in it
OwnAdminIds == <<101, 102>>
OwnUids == {101, 102, 103}
OwnIsAdmin(uid) == \E i \in 1..Len(OwnAdminIds) : OwnAdminIds[i] = uid

\* a row: the user record and the updated_at column (NULL until the first update)
OwnRow(rec, updatedAt) == [rec |-> rec, updatedAt |-> updatedAt]
OwnAbsent == OwnRow(NoUser, NULL)

\* the row of the first admin id when the process starts: none; an owner row; a
\* trial row (a new trial, or an owner demoted by hand) with its trial expiry
OwnFirstRows ==
    { OwnAbsent,
      OwnRow(Row("owner", NULL, NULL, 0, Today0, 0), NULL),
      OwnRow(Row("trial", StartTime + 5 * DayTicks, NULL, 3, Today0, 12), StartTime - 1) }

OwnSecondRows ==
    { OwnAbsent, OwnRow(Row("owner", StartTime + 2 * DayTicks, NULL, 0, Today0, 4), NULL) }

OwnImpls == {"initializeOwners", "ensureOwnerUsers"}

OwnIdleRun(impl) == [impl |-> impl, pc |-> "idle", i |-> 0]

InitOwners ==
    /\ PipeIdle
    /\ AcIdle
    /\ TokIdle
    /\ OAuthIdle
    /\ BurstIdle
    /\ PayIdle
    /\ UsIdle
    /\ SwIdle
    /\ LgIdle
    /\ PfIdle
    /\ ownNow = StartTime
    /\ \E first \in OwnFirstRows, second \in OwnSecondRows :
          ownTable = [uid \in OwnUids |->
                        IF uid = OwnAdminIds[1] THEN first
                        ELSE IF uid = OwnAdminIds[2] THEN second
                        ELSE OwnRow(Row("trial", StartTime + DayTicks, NULL, 1, Today0, 1),
                                    NULL)]
    /\ \E impl \in OwnImpls : ownRun = OwnIdleRun(impl)
    /\ ownBefore = ownTable
    /\ ownCalls = 0

\* the loop of initializeOwners goes on to the next id, or the call returns
OwnAdvance ==
    IF ownRun.i < Len(OwnAdminIds)
    THEN ownRun' = [ownRun EXCEPT !.pc = "get", !.i = @ + 1] /\ UNCHANGED ownCalls
    ELSE ownRun' = [ownRun EXCEPT !.pc = "done"] /\ ownCalls' = ownCalls + 1

\* await initializeOwners(userStore, adminIds) is called
InitializeOwnersCall ==
    /\ ownRun.impl = "initializeOwners"
    /\ ownRun.pc \in {"idle", "done"}
    /\ ownCalls < MaxOwnCalls
    /\ ownRun' = [ownRun EXCEPT !.pc = "get", !.i = 1]
    /\ ownBefore' = ownTable
    /\ UNCHANGED <<ownNow, ownTable, ownCalls, pipeVars, acVars, tokVars, oauthVars, burstVars, payVars, usVars, swVars, lgVars, pfVars>>

\* existingUser = await userStore.getUser(telegramUserId), and the tests on it
InitializeOwnersGet ==
    /\ ownRun.pc = "get"
    /\ LET existingUser == ownTable[OwnAdminIds[ownRun.i]].rec
       IN  IF existingUser.present
           THEN IF existingUser.role # "owner"
                THEN ownRun' = [ownRun EXCEPT !.pc = "update"] /\ UNCHANGED ownCalls
                ELSE OwnAdvance
           ELSE ownRun' = [ownRun EXCEPT !.pc = "create"] /\ UNCHANGED ownCalls
    /\ UNCHANGED <<ownNow, ownTable, ownBefore, pipeVars, acVars, tokVars, oauthVars, burstVars, payVars, usVars, swVars, lgVars, pfVars>>

\* await userStore.updateUser(telegramUserId, {role: "owner"})
InitializeOwnersUpdate ==
    /\ ownRun.pc = "update"
    /\ LET uid == OwnAdminIds[ownRun.i]
       IN  ownTable' = [ownTable EXCEPT ![uid] =
                          OwnRow(MergeUpdate(ownTable[uid].rec, RoleUpdate), ownNow)]
    /\ OwnAdvance
    /\ UNCHANGED <<ownNow, ownBefore, pipeVars, acVars, tokVars, oauthVars, burstVars, payVars, usVars, swVars, lgVars, pfVars>>

\* await userStore.createUser({telegramUserId, role: "owner"})
InitializeOwnersCreate ==
    /\ ownRun.pc = "create"
    /\ LET uid == OwnAdminIds[ownRun.i]
       IN  ownTable' = [ownTable EXCEPT ![uid] =
                          OwnRow(NewUser("owner", DefaultTrialDays, ownNow), NULL)]
    /\ OwnAdvance
    /\ UNCHANGED <<ownNow, ownBefore, pipeVars, acVars, tokVars, oauthVars, burstVars, payVars, usVars, swVars, lgVars, pfVars>>

\* INSERT ... VALUES (?, 'owner', now, now, today) ON CONFLICT DO UPDATE SET
\* role = 'owner', trial_expires_at = NULL, updated_at = excluded.updated_at
upsertOwner(table, adminId, t) ==
    IF ~table[adminId].rec.present
    THEN [table EXCEPT ![adminId] = OwnRow(NewUser("owner", DefaultTrialDays, t), t)]
    ELSE [table EXCEPT ![adminId] = OwnRow(MergeUpdate(table[adminId].rec, OwnerUpdate), t)]

RECURSIVE UpsertOwners(_, _, _)
\* for (const adminId of adminIds) upsertOwner.run(adminId, now, now, today)
UpsertOwners(table, i, t) ==
    IF i > Len(OwnAdminIds) THEN table
    ELSE UpsertOwners(upsertOwner(table, OwnAdminIds[i], t), i + 1, t)

\* await store.ensureOwnerUsers(adminIds): one transaction, committed or rolled back
EnsureOwnerUsers(committed) ==
    /\ ownRun.impl = "ensureOwnerUsers"
    /\ ownRun.pc \in {"idle", "done"}
    /\ ownCalls < MaxOwnCalls
    /\ ownBefore' = ownTable
    /\ ownTable' = IF committed THEN UpsertOwners(ownTable, 1, ownNow) ELSE ownTable
    /\ ownRun' = [ownRun EXCEPT !.pc = IF committed THEN "done" ELSE "idle"]
    /\ ownCalls' = IF committed THEN ownCalls + 1 ELSE ownCalls
    /\ UNCHANGED <<ownNow, pipeVars, acVars, tokVars, oauthVars, burstVars, payVars, usVars, swVars, lgVars, pfVars>>

\* Date.now() moves on, between calls or between the awaits of one
OwnTick ==
    /\ ownNow < StartTime + MaxOwnTicks
    /\ ownNow' = ownNow + 1
    /\ UNCHANGED <<ownTable, ownRun, ownBefore, ownCalls, pipeVars, acVars, tokVars, oauthVars, burstVars, payVars, usVars, swVars, lgVars, pfVars>>

NextOwners ==
    \/ InitializeOwnersCall
    \/ InitializeOwnersGet
    \/ InitializeOwnersUpdate
    \/ InitializeOwnersCreate
    \/ \E committed \in BOOLEAN : EnsureOwnerUsers(committed)
    \/ OwnTick

SpecOwners == InitOwners /\ [][NextOwners]_vars

\* a reconciliation call has returned
OwnReconciled == ownRun.pc = "done"

\* C19: after a reconciliation call has returned, every id of the admin list has
\* a row with role owner and no trial expiry, and a row that was there before the
\* call keeps its other fields.
C19_ReconciliationRestoresOwners ==
    OwnReconciled =>
       \A uid \in OwnUids :
          OwnIsAdmin(uid) =>
             /\ ownTable[uid].rec.present
             /\ ownTable[uid].rec.role = "owner"
             /\ ownTable[uid].rec.trialExpiresAt = NULL
             /\ ownBefore[uid].rec.present =>
                   ownTable[uid].rec = [ownBefore[uid].rec EXCEPT
                                          !.role = "owner", !.trialExpiresAt = NULL]

\* C20: a reconciliation call that is not the first leaves every field of every
\* row, updatedAt included, as it found it.
C20_LaterCallsWriteNothing ==
    (OwnReconciled /\ ownCalls >= 2) => ownTable = ownBefore

(***************************************************************************)
(* SpecBurst: the Burst Guard alone (checkTrialBurstAllowance), for a few  *)
(* identities that send at any time, with the limits of its test scaled    *)
(* to ticks and the Map's cap scaled to BurstCapUsers.                     *)
(***************************************************************************)
TestBurstLimits ==
    BurstLimits(BurstWindow, BurstTestMax, BurstWarnCooldown, BurstCapUsers)

\* three identities: one more than the Map's cap
BurstIdents == {1, 2, 3}

NoBurstAnswer == [uid |-> 0, at |-> 0, allowed |-> TRUE, shouldWarn |-> FALSE]
NoWindow == [start |-> NULL, count |-> 0, warnedAt |-> NULL, warned |-> 0, pruned |-> FALSE]

InitBurst ==
    /\ PipeIdle
    /\ AcIdle
    /\ TokIdle
    /\ OAuthIdle
    /\ OwnIdle
    /\ PayIdle
    /\ UsIdle
    /\ SwIdle
    /\ LgIdle
    /\ PfIdle
    /\ bNow = StartTime
    /\ bState = <<>>
    /\ bLast = NoBurstAnswer
    /\ bHist = [uid \in BurstIdents |-> NoWindow]

\* the window identity uid is in when a message of it arrives at time t
WindowOpen(uid, t) ==
    /\ bHist[uid].start # NULL
    /\ t < bHist[uid].start + TestBurstLimits.windowMs

\* a message of a trial or expired user reaches the guard; identity 1 sends at
\* any time, up to two messages past the limit per window, the others send
\* while the Map holds no entry of theirs
BurstMessage(uid) ==
    LET burstCheck == checkTrialBurstAllowance(bState, uid, bNow, TestBurstLimits)
    IN  /\ WindowOpen(uid, bNow) => bHist[uid].count < TestBurstLimits.maxMessages + 2
        /\ uid # 1 => BurstIndex(bState, uid) = 0
        /\ bState' = burstCheck.state
        /\ bLast' = [uid |-> uid, at |-> bNow, allowed |-> burstCheck.allowed,
                     shouldWarn |-> burstCheck.shouldWarn]
        /\ bHist' = [u \in BurstIdents |->
              LET warns == u = uid /\ ~burstCheck.allowed /\ burstCheck.shouldWarn
                  deleted == /\ BurstIndex(bState, u) # 0
                             /\ BurstIndex(pruneTrialBurstState(bState, bNow,
                                                                TestBurstLimits), u) = 0
              IN  [start |-> IF u = uid /\ ~WindowOpen(uid, bNow) THEN bNow
                             ELSE bHist[u].start,
                   count |-> IF u # uid THEN bHist[u].count
                             ELSE IF WindowOpen(uid, bNow) THEN bHist[u].count + 1 ELSE 1,
                   warnedAt |-> IF warns THEN bNow ELSE bHist[u].warnedAt,
                   warned |-> IF warns THEN bHist[u].warned + 1 ELSE bHist[u].warned,
                   pruned |-> bHist[u].pruned \/ deleted]]
        /\ UNCHANGED <<bNow, pipeVars, acVars, tokVars, oauthVars, ownVars, payVars, usVars, swVars, lgVars, pfVars>>

BurstTick ==
    /\ bNow < StartTime + MaxBurstTicks
    /\ bNow' = bNow + 1
    /\ UNCHANGED <<bState, bLast, bHist, pipeVars, acVars, tokVars, oauthVars, ownVars, payVars, usVars, swVars, lgVars, pfVars>>

NextBurst ==
    \/ \E uid \in BurstIdents : BurstMessage(uid)
    \/ BurstTick

SpecBurst == InitBurst /\ [][NextBurst]_vars

\* the step in which a message of identity uid passes through the guard
BurstArrival(uid) == bHist'[uid] # bHist[uid] /\ bLast'.uid = uid /\ bLast'.at = bNow

\* C21: for one identity, the message that opens a window and the next
\* maxMessages - 1 messages that arrive before windowStart + windowMs are allowed,
\* every further message before windowStart + windowMs is denied, and the first
\* message at or after windowStart + windowMs is allowed and opens a window with
\* count 1.
C21_BurstWindow ==
    [][\A uid \in BurstIdents :
          BurstArrival(uid) =>
             /\ bLast'.allowed = (bHist'[uid].count <= TestBurstLimits.maxMessages)
             /\ ~WindowOpen(uid, bNow) =>
                   /\ bLast'.allowed
                   /\ bHist'[uid].count = 1
                   /\ bState'[BurstIndex(bState', uid)].windowStartedAt = bNow
                   /\ bState'[BurstIndex(bState', uid)].messageCount = 1]_vars

\* identity 1 was denied in one window and is allowed again as the next one opens
C21_Witness ==
    /\ bLast.uid = 1
    /\ bLast.allowed
    /\ bHist[1].count = 1
    /\ bHist[1].warnedAt # NULL
    /\ bHist[1].start = bLast.at
    /\ bLast.at >= bHist[1].warnedAt + TestBurstLimits.windowMs

\* C22: for one identity, a burst warning is sent only for a rejected message and
\* at least warnCooldownMs after the warning before it, whatever was rejected,
\* restarted or pruned in between; a message rejected inside the cooldown gets
\* no warning.
C22_WarnCooldown ==
    [][\A uid \in BurstIdents :
          BurstArrival(uid) =>
             /\ bLast'.shouldWarn =>
                   /\ ~bLast'.allowed
                   /\ bHist[uid].warnedAt # NULL =>
                         bNow - bHist[uid].warnedAt >= TestBurstLimits.warnCooldownMs
             /\ (/\ ~bLast'.allowed
                 /\ bHist[uid].warnedAt # NULL
                 /\ bNow - bHist[uid].warnedAt < TestBurstLimits.warnCooldownMs)
                   => ~bLast'.shouldWarn]_vars

\* identity 1 is warned a second time after the guard deleted its entry, and with
\* it the time of the first warning
C22_Witness ==
    /\ bLast.uid = 1
    /\ bLast.shouldWarn
    /\ bHist[1].warned = 2
    /\ bHist[1].pruned

\* C23: the Map never holds more identities than its cap.
C23_BurstStateBounded == Len(bState) <= TestBurstLimits.maxUsers

(***************************************************************************)
(* SpecPay: the pre_checkout_query and message:successful_payment handlers *)
(* (bot-native-commands.ts), one update at a time.                         *)
(***************************************************************************)
SUBSCRIPTION_PERIOD_MS == SUBSCRIPTION_PERIOD_DAYS * DayTicks

\* SUBSCRIPTION_PRICING[plan].stars
PlanStars(plan) == IF plan = "starter" THEN 100 ELSE 300

\* two Telegram users, the second listed in ADMIN_TELEGRAM_IDS; the bot's account
PayUids == {7, 9}
PayAdminIds == {9}
PayAccountId == "acc"

\* the text of invoice_payload: JSON or not, and the members of the object with
\* their JSON types
InvoiceText(json, v, kind, userId, plan, accountId) ==
    [json |-> json, v |-> v, kind |-> kind, userId |-> userId, plan |-> plan,
     accountId |-> accountId]

JNumber(n) == [t |-> "number", n |-> n, s |-> ""]
JString(str) == [t |-> "string", n |-> 0, s |-> str]
JAbsent == [t |-> "absent", n |-> 0, s |-> ""]

\* JSON.stringify({v: 1, kind: "subscription", accountId, userId, plan})
buildSubscriptionInvoicePayload(accountId, userId, plan) ==
    InvoiceText(TRUE, 1, "subscription", JNumber(userId), plan, JString(accountId))

\* the invoice of user 7 for the starter plan, and texts that differ from it in
\* one respect
PayShapes ==
    {"starter", "premium", "not_json", "v2", "other_kind", "string_user", "gold_plan",
     "no_account", "blank_account", "other_account", "other_user"}

InvoiceOf(shape) ==
    LET good == buildSubscriptionInvoicePayload(PayAccountId, 7, "starter")
    IN  CASE shape = "premium" -> [good EXCEPT !.plan = "premium"]
          [] shape = "not_json" -> [good EXCEPT !.json = FALSE]
          [] shape = "v2" -> [good EXCEPT !.v = 2]
          [] shape = "other_kind" -> [good EXCEPT !.kind = "donation"]
          [] shape = "string_user" -> [good EXCEPT !.userId = JString("7")]
          [] shape = "gold_plan" -> [good EXCEPT !.plan = "gold"]
          [] shape = "no_account" -> [good EXCEPT !.accountId = JAbsent]
          [] shape = "blank_account" -> [good EXCEPT !.accountId = JString("  ")]
          [] shape = "other_account" -> [good EXCEPT !.accountId = JString(" acc ")]
          [] shape = "other_user" -> [good EXCEPT !.userId = JNumber(9)]
          [] OTHER -> good

NoInvoice == [present |-> FALSE, accountId |-> "", userId |-> 0, plan |-> "starter"]

\* the payload object, or null
parseSubscriptionInvoicePayload(raw) ==
    IF \/ ~raw.json
       \/ raw.v # 1
       \/ raw.kind # "subscription"
       \/ raw.userId.t # "number"
       \/ (raw.plan # "starter" /\ raw.plan # "premium")
       \/ raw.accountId.t # "string"
       \/ Trim(raw.accountId.s) = ""
    THEN NoInvoice
    ELSE [present |-> TRUE, accountId |-> raw.accountId.s, userId |-> raw.userId.n,
          plan |-> raw.plan]

\* a row of the users table as far as the payment handlers read and write it
PayUser(role, trialExpiresAt, plan, subscriptionExpiresAt, chargeId, autoRenew, firstName) ==
    [present |-> TRUE, role |-> role, trialExpiresAt |-> trialExpiresAt,
     subscriptionPlan |-> plan, subscriptionExpiresAt |-> subscriptionExpiresAt,
     subscriptionChargeId |-> chargeId, autoRenew |-> autoRenew, firstName |-> firstName]

PayAbsent == [PayUser("trial", NULL, "none", NULL, "none", FALSE, "") EXCEPT !.present = FALSE]

PayFirstNames == [uid \in PayUids |-> IF uid = 7 THEN "Seven" ELSE "Nine"]

\* userStore.createUser({telegramUserId, firstName, ..., role})
PayNewUser(role, firstName, t) ==
    PayUser(role, IF role = "trial" THEN t + DefaultTrialDays * DayTicks ELSE NULL,
            "none", NULL, "none", FALSE, firstName)

\* the rows of user 7 when an update arrives: none, a trial, a running and a
\* lapsed subscription
PaySevenRows ==
    { PayAbsent,
      PayNewUser("trial", "Seven", StartTime),
      PayUser("subscriber", NULL, "starter", StartTime + 5, "ch0", TRUE, "Seven"),
      PayUser("subscriber", NULL, "premium", StartTime - 1, "ch0", FALSE, "Seven") }

\* the rows of the admin: none, an owner row, a row that drifted to trial
PayNineRows ==
    { PayAbsent, PayNewUser("owner", "Nine", StartTime),
      PayNewUser("trial", "Nine", StartTime) }

PayIdleReq ==
    [pc |-> "idle", kind |-> "none", from |-> 0, invoice |-> InvoiceOf("starter"),
     currency |-> "", amount |-> 0, chargeId |-> "", payload |-> NoInvoice,
     user |-> PayAbsent, now |-> 0, nextExpiry |-> 0, seq |-> 0]

InitPay ==
    /\ PipeIdle
    /\ AcIdle
    /\ TokIdle
    /\ OAuthIdle
    /\ OwnIdle
    /\ BurstIdle
    /\ UsIdle
    /\ SwIdle
    /\ LgIdle
    /\ PfIdle
    /\ payNow = StartTime
    /\ \E seven \in PaySevenRows, nine \in PayNineRows :
          payTable = [uid \in PayUids |-> IF uid = 7 THEN seven ELSE nine]
    /\ payReq = PayIdleReq
    /\ payAnswer = "none"
    /\ payBefore = payTable

PreCheckout_noPayerCheck(from, shape, currency, amount) ==
    LET payload == parseSubscriptionInvoicePayload(InvoiceOf(shape))
        approve ==
            /\ payload.present
            /\ currency = "XTR"
            /\ payload.accountId = PayAccountId
            /\ amount = PlanStars(payload.plan)
    IN  /\ payReq.pc \in {"idle", "done"}
        /\ payReq.seq < MaxPayUpdates
        /\ payReq' = [PayIdleReq EXCEPT !.pc = "done", !.kind = "pre_checkout",
                                        !.seq = payReq.seq + 1,
                                        !.from = from, !.invoice = InvoiceOf(shape),
                                        !.currency = currency, !.amount = amount,
                                        !.payload = payload]
        /\ payAnswer' = IF approve THEN "approve" ELSE "reject"
        /\ payBefore' = payTable
        /\ UNCHANGED <<payNow, payTable, pipeVars, acVars, tokVars, oauthVars, ownVars,
                       burstVars, usVars, swVars, lgVars, pfVars>>

\* bot.on("pre_checkout_query"): answerPreCheckoutQuery(true), or (false, reason)
PreCheckout(from, shape, currency, amount) ==
    LET payload == parseSubscriptionInvoicePayload(InvoiceOf(shape))
        approve ==
            IF ~payload.present THEN FALSE
            ELSE IF currency # "XTR" THEN FALSE
            ELSE IF payload.accountId # PayAccountId THEN FALSE
            ELSE IF payload.userId # from THEN FALSE
            ELSE IF amount # PlanStars(payload.plan) THEN FALSE
            ELSE TRUE
    IN  /\ payReq.pc \in {"idle", "done"}
        /\ payReq.seq < MaxPayUpdates
        /\ payReq' = [PayIdleReq EXCEPT !.pc = "done", !.kind = "pre_checkout",
                                        !.seq = payReq.seq + 1,
                                        !.from = from, !.invoice = InvoiceOf(shape),
                                        !.currency = currency, !.amount = amount,
                                        !.payload = payload]
        /\ payAnswer' = IF approve THEN "approve" ELSE "reject"
        /\ payBefore' = payTable
        /\ UNCHANGED <<payNow, payTable, pipeVars, acVars, tokVars, oauthVars, ownVars,
                       burstVars, usVars, swVars, lgVars, pfVars>>

\* bot.on("message:successful_payment") up to its first await: the reply to an
\* invalid payment, or the getUser of ensureSubscriptionUser
PaymentArrives(from, shape, currency, amount, chargeId) ==
    LET payload == parseSubscriptionInvoicePayload(InvoiceOf(shape))
        req == [PayIdleReq EXCEPT !.kind = "payment", !.from = from,
                                  !.seq = payReq.seq + 1,
                                  !.invoice = InvoiceOf(shape), !.currency = currency,
                                  !.amount = amount, !.chargeId = chargeId,
                                  !.payload = payload]
    IN  /\ payReq.pc \in {"idle", "done"}
        /\ payReq.seq < MaxPayUpdates
        /\ payReq' = IF ~payload.present THEN [req EXCEPT !.pc = "done"]
                     ELSE IF currency # "XTR" \/ amount # PlanStars(payload.plan)
                     THEN [req EXCEPT !.pc = "done"]
                     ELSE [req EXCEPT !.pc = "get"]
        /\ payBefore' = payTable
        /\ UNCHANGED <<payNow, payTable, payAnswer, pipeVars, acVars, tokVars, oauthVars,
                       ownVars, burstVars, usVars, swVars, lgVars, pfVars>>

\* what the handler does when ensureSubscriptionUser has returned `user`: now,
\* currentExpiry, baseTs, nextExpiry, and the call of updateUser
PayComputed(user) ==
    LET currentExpiry == user.subscriptionExpiresAt
        baseTs == IF Truthy(currentExpiry) /\ currentExpiry > payNow
                  THEN currentExpiry ELSE payNow
    IN  [payReq EXCEPT !.pc = "update", !.user = user, !.now = payNow,
                       !.nextExpiry = baseTs + SUBSCRIPTION_PERIOD_MS]

\* ensureSubscriptionUser: existing = await userStore.getUser(userId)
PayGetUser ==
    /\ payReq.pc = "get"
    /\ LET userId == payReq.payload.userId
           existing == payTable[userId]
       IN  IF existing.present
           THEN IF userId \in PayAdminIds
                   /\ (existing.role # "owner" \/ existing.trialExpiresAt # NULL)
                THEN payReq' = [payReq EXCEPT !.pc = "repair"]
                ELSE payReq' = PayComputed(existing)
           ELSE payReq' = [payReq EXCEPT !.pc = "create"]
    /\ UNCHANGED <<payNow, payTable, payAnswer, payBefore, pipeVars, acVars, tokVars,
                   oauthVars, ownVars, burstVars, usVars, swVars, lgVars, pfVars>>

\* ensureSubscriptionUser: return await userStore.updateUser(userId, {role: "owner",
\* trialExpiresAt: null})
PayRepair ==
    /\ payReq.pc = "repair"
    /\ LET userId == payReq.payload.userId
           merged == [payTable[userId] EXCEPT !.role = "owner", !.trialExpiresAt = NULL]
       IN  /\ payTable' = [payTable EXCEPT ![userId] = merged]
           /\ payReq' = PayComputed(merged)
    /\ UNCHANGED <<payNow, payAnswer, payBefore, pipeVars, acVars, tokVars, oauthVars,
                   ownVars, burstVars, usVars, swVars, lgVars, pfVars>>

\* ensureSubscriptionUser: return await userStore.createUser({telegramUserId: userId,
\* firstName: ctx.from?.first_name, ..., role: adminUser ? "owner" : "trial"})
PayCreateUser ==
    /\ payReq.pc = "create"
    /\ LET userId == payReq.payload.userId
           created == PayNewUser(IF userId \in PayAdminIds THEN "owner" ELSE "trial",
                                 PayFirstNames[payReq.from], payNow)
       IN  /\ payTable' = [payTable EXCEPT ![userId] = created]
           /\ payReq' = PayComputed(created)
    /\ UNCHANGED <<payNow, payAnswer, payBefore, pipeVars, acVars, tokVars, oauthVars,
                   ownVars, burstVars, usVars, swVars, lgVars, pfVars>>

\* await userStore.updateUser(payload.userId, {role: "subscriber", ...})
PayUpdateUser ==
    /\ payReq.pc = "update"
    /\ LET userId == payReq.payload.userId
       IN  payTable' = [payTable EXCEPT ![userId] =
              [payTable[userId] EXCEPT !.role = "subscriber",
                                       !.subscriptionPlan = payReq.payload.plan,
                                       !.subscriptionExpiresAt = payReq.nextExpiry,
                                       !.subscriptionChargeId = payReq.chargeId,
                                       !.autoRenew = TRUE]]
    /\ payReq' = [payReq EXCEPT !.pc = "done"]
    /\ UNCHANGED <<payNow, payAnswer, payBefore, pipeVars, acVars, tokVars, oauthVars,
                   ownVars, burstVars, usVars, swVars, lgVars, pfVars>>

PayTick ==
    /\ payNow < StartTime + MaxPayTicks
    /\ payNow' = payNow + 1
    /\ UNCHANGED <<payTable, payReq, payAnswer, payBefore, pipeVars, acVars, tokVars,
                   oauthVars, ownVars, burstVars, usVars, swVars, lgVars, pfVars>>

PayCurrencies == {"XTR", "USD"}
PayAmounts == {100, 300, 1}

\* the updates Telegram delivers: every sender, currency and amount with the
\* three well-formed invoices, and each malformed invoice with the sender,
\* currency and amount that fit the starter invoice of user 7
PayUpdates ==
    { [from |-> from, shape |-> shape, currency |-> currency, amount |-> amount] :
         from \in PayUids, shape \in {"starter", "premium", "other_user"},
         currency \in PayCurrencies, amount \in PayAmounts }
    \cup
    { [from |-> 7, shape |-> shape, currency |-> "XTR", amount |-> PlanStars("starter")] :
         shape \in PayShapes }

NextPay ==
    \/ \E u \in PayUpdates : PreCheckout(u.from, u.shape, u.currency, u.amount)
    \/ \E u \in PayUpdates : PaymentArrives(u.from, u.shape, u.currency, u.amount, "ch1")
    \/ PayGetUser
    \/ PayRepair
    \/ PayCreateUser
    \/ PayUpdateUser
    \/ PayTick

SpecPay == InitPay /\ [][NextPay]_vars

\* the update handled last was a pre_checkout_query, or a successful_payment
PayHandled(kind) == payReq.kind = kind /\ payReq.pc = "done"

\* the conditions of an approval, read off the update itself
PayWellFormed ==
    /\ payReq.invoice.json
    /\ payReq.invoice.v = 1
    /\ payReq.invoice.kind = "subscription"
    /\ payReq.invoice.plan \in {"starter", "premium"}
    /\ payReq.invoice.userId.t = "number"
    /\ payReq.invoice.accountId.t = "string"
    /\ Trim(payReq.invoice.accountId.s) # ""

PayPriced ==
    /\ PayWellFormed
    /\ payReq.currency = "XTR"
    /\ payReq.amount = PlanStars(payReq.invoice.plan)

C25_PreCheckoutApproval ==
    PayHandled("pre_checkout") =>
       /\ payAnswer \in {"approve", "reject"}
       /\ payAnswer = "approve" <=>
             /\ PayPriced
             /\ payReq.invoice.accountId.s = PayAccountId
             /\ payReq.invoice.userId.n = payReq.from
       /\ payTable = payBefore

\* user 9 pays the invoice made out to user 9 and is approved
C25_Witness ==
    /\ PayHandled("pre_checkout")
    /\ payAnswer = "approve"
    /\ payReq.from = 9
    /\ payReq.invoice.userId.n = 9

(***************************************************************************)
(* Claims about the user store under overlapping calls.                    *)
(***************************************************************************)
\* C26: the lifetime counters of a persisted record never decrease from one
\* state of the table to the next.
C26_LifetimeCountersMonotonic ==
    [][\A u \in UserIds :
          (db[u].present /\ db'[u].present) =>
             /\ db'[u].totalMessagesUsed >= db[u].totalMessagesUsed
             /\ db'[u].totalTokensUsed >= db[u].totalTokensUsed]_vars

(***************************************************************************)
(* SpecAbandon: the message-handling tasks of Spec, any of which may be    *)
(* abandoned at an await of its incrementUsage call and never resumed.     *)
(***************************************************************************)
\* the four counters incrementUsage changes, with lastMessageDate
UsageFields(rec) ==
    <<rec.messagesUsedToday, rec.totalMessagesUsed, rec.totalTokensUsed,
      rec.lastMessageDate>>

\* the task is inside `await userStore.incrementUsage(userId, 0, 0)`
InIncrement(tk) ==
    /\ tk.kind = "private"
    /\ tk.pc \in {"inc_read", "upd_read", "upd_write"}
    /\ tk.updates.kind # "owner"

\* the task stops at the await it is suspended at, after the access check, and its
\* continuation never runs; its slot keeps what it held
Abandon(t) ==
    /\ InIncrement(task[t]) \/ (task[t].kind = "private" /\ task[t].pc = "dispatch")
    /\ task' = [task EXCEPT ![t].pc = "abandoned"]
    /\ UNCHANGED <<now, db, trialBurstState, admittedToday, incDone, db0, nStarted, acVars, extVars>>

\* the table when the run starts: empty, or the sender is a trial user one message
\* short of the daily limit
AbandonTables ==
    {f \in InitTables :
        \A u \in UserIds :
            f[u].present => (f[u].role = "trial" /\ EffectiveUsed(f[u], StartTime) > 0
                               /\ canSendMessage(f[u], StartTime).allowed)}

InitAbandon == InitPipe(StartTime, AbandonTables, {<<>>})

NextAbandon ==
    \/ \E t \in Tasks, uid \in UserIds : Start(t, uid, "private")
    \/ \E t \in Tasks : GetUser(t)
    \/ \E t \in Tasks : CreateUser(t)
    \/ \E t \in Tasks, delivered \in BOOLEAN : SendNotice(t, delivered)
    \/ \E t \in Tasks : IncrementRead(t)
    \/ \E t \in Tasks : UpdateRead(t)
    \/ \E t \in Tasks : UpdateWrite(t)
    \/ \E t \in Tasks : Dispatch(t)
    \/ \E t \in Tasks : Abandon(t)
    \/ Tick

SpecAbandon == InitAbandon /\ [][NextAbandon]_vars

\* C27: a step of a task inside incrementUsage, abandonment included, leaves the
\* four counters and lastMessageDate of the record as they were, or persists all of
\* the task's update at once and takes the task out of incrementUsage; and the
\* lifetime message count never exceeds the number of messages handled.
C27_IncrementAllOrNothing ==
    [][/\ \A t \in Tasks :
            (InIncrement(task[t]) /\ task'[t] # task[t]) =>
               LET uid == task[t].uid
               IN  \/ db' = db
                   \/ /\ task[t].pc = "upd_write"
                      /\ UsageFields(db'[uid]) = UsageFields(task[t].updates)
                      /\ ~InIncrement(task'[t])
                      /\ \A u \in UserIds \ {uid} : db'[u] = db[u]
       /\ \A u \in UserIds :
            db'[u].totalMessagesUsed <= db0[u].totalMessagesUsed + nStarted']_vars

\* one task was abandoned after its write and another before its write, and the
\* record shows exactly the first one's increment
C27_Witness ==
    \E t1, t2 \in Tasks :
        /\ task[t1].pc = "abandoned" /\ task[t1].updates.kind = "none"
        /\ incDone[task[t1].uid].calls = 1
        /\ task[t2].pc = "abandoned" /\ task[t2].updates.kind = "usage"
        /\ task[t2].uid = task[t1].uid
        /\ db[task[t1].uid].totalMessagesUsed = db0[task[t1].uid].totalMessagesUsed + 1

(***************************************************************************)
(* SpecUserStore: overlapping calls of UserStore.createUser,               *)
(* getOrCreateUser, updateUser and incrementUsage (SQLite user-store.ts).  *)
(* Every await of a call is a point where another call may run.            *)
(***************************************************************************)
MaxUsCalls == 2
MaxUsTicks == 1

UsIds == {1, 2}
UsSlots == {1, 2}

\* a row of the users table as rowToRecord returns it; NULL stands for a column
\* that is null, "none" for a name that is null
UsRow(firstName, role, createdAt, updatedAt, trialExpiresAt, used, day, total, tokens) ==
    [present |-> TRUE, firstName |-> firstName, role |-> role, createdAt |-> createdAt,
     updatedAt |-> updatedAt, trialExpiresAt |-> trialExpiresAt,
     messagesUsedToday |-> used, lastMessageDate |-> day,
     totalMessagesUsed |-> total, totalTokensUsed |-> tokens]

\* getUser's answer for an id without a row
UsAbsent == [UsRow("none", "trial", 0, NULL, NULL, 0, 0, 0, 0) EXCEPT !.present = FALSE]

\* the row createUser builds: updatedAt is not set
UsNewUser(firstName, role, t) ==
    UsRow(firstName, role, t, NULL,
          IF role = "trial" THEN t + DefaultTrialDays * DayTicks ELSE NULL,
          0, getTodayDateString(t), 0, 0)

\* a partial update: the fields it names and their values
UsUpdate(names, vals) == [names |-> names, vals |-> vals]

UsNoUpdate == UsUpdate({}, UsAbsent)

\* {role: "owner", trialExpiresAt: null}, the owner repair of the message handler
UsOwnerRepair ==
    UsUpdate({"role", "trialExpiresAt"},
             [UsAbsent EXCEPT !.role = "owner", !.trialExpiresAt = NULL])

\* {firstName: "Jane"}
UsRename == UsUpdate({"firstName"}, [UsAbsent EXCEPT !.firstName = "Jane"])

\* the update incrementUsage passes to updateUser, computed from the record it read
UsIncrementUpdate(user, tokensUsed, t) ==
    UsUpdate({"messagesUsedToday", "totalMessagesUsed", "totalTokensUsed", "lastMessageDate"},
             [UsAbsent EXCEPT !.messagesUsedToday = EffectiveUsed(user, t) + 1,
                              !.totalMessagesUsed = user.totalMessagesUsed + 1,
                              !.totalTokensUsed = user.totalTokensUsed + tokensUsed,
                              !.lastMessageDate = getTodayDateString(t)])

\* merged = {...existing, ...updates, updatedAt: Date.now()}
UsMerged(existing, updates, t) ==
    [f \in DOMAIN existing |->
        IF f = "updatedAt" THEN t
        ELSE IF f \in updates.names THEN updates.vals[f]
        ELSE existing[f]]

UsNoResult == [kind |-> "none", error |-> "none", record |-> UsAbsent]
UsOk(record) == [kind |-> "ok", error |-> "none", record |-> record]
UsError(message) == [kind |-> "error", error |-> message, record |-> UsAbsent]

UsIdleCall ==
    [op |-> "none", pc |-> "idle", id |-> 0, firstName |-> "none", role |-> "trial",
     updates |-> UsNoUpdate, tokens |-> 0, existing |-> UsAbsent, result |-> UsNoResult]

UsRequest(op, pc, id, firstName, role, updates, tokens) ==
    [UsIdleCall EXCEPT !.op = op, !.pc = pc, !.id = id, !.firstName = firstName,
                       !.role = role, !.updates = updates, !.tokens = tokens]

\* the calls a caller may make
UsRequests ==
    UNION { { UsRequest("createUser", "create", id, "John", "trial", UsNoUpdate, 0),
              UsRequest("getOrCreateUser", "goc_get", id, "Jane", "owner", UsNoUpdate, 0),
              UsRequest("updateUser", "upd_read", id, "none", "trial", UsOwnerRepair, 0),
              UsRequest("updateUser", "upd_read", id, "none", "trial", UsRename, 0),
              UsRequest("incrementUsage", "inc_read", id, "none", "trial", UsNoUpdate, 0),
              UsRequest("incrementUsage", "inc_read", id, "none", "trial", UsNoUpdate, 1) }
            : id \in UsIds }

\* id 1 has a row created on an earlier day; id 2 has none
InitUserStore ==
    /\ PipeIdle
    /\ AcIdle
    /\ TokIdle
    /\ OAuthIdle
    /\ OwnIdle
    /\ BurstIdle
    /\ PayIdle
    /\ SwIdle
    /\ LgIdle
    /\ PfIdle
    /\ usNow = StartTime
    /\ usTable = [id \in UsIds |->
                    IF id = 1
                    THEN UsRow("John", "trial", StartTime - DayTicks, NULL,
                               StartTime + 6 * DayTicks, 1, Today0, 1, 0)
                    ELSE UsAbsent]
    /\ usCall = [c \in UsSlots |-> UsIdleCall]
    /\ usStarted = 0

UsFree(c) == usCall[c].pc \in {"idle", "done"}

\* a caller invokes one of the store's methods
UsStart(c, req) ==
    /\ UsFree(c)
    /\ \A c2 \in UsSlots : c2 < c => ~UsFree(c2)
    /\ usStarted < MaxUsCalls
    /\ usStarted' = usStarted + 1
    /\ usCall' = [usCall EXCEPT ![c] = req]
    /\ UNCHANGED <<usNow, usTable, pipeVars, acVars, tokVars, oauthVars, ownVars, burstVars, payVars,
                   swVars, lgVars, pfVars>>

UsDone(c, result) ==
    usCall' = [usCall EXCEPT ![c].pc = "done", ![c].result = result]

UsGetOrCreate_ignoresExisting(c) ==
    /\ usCall[c].pc = "goc_get"
    /\ usCall' = [usCall EXCEPT ![c].pc = "create"]
    /\ UNCHANGED <<usNow, usTable, usStarted, pipeVars, acVars, tokVars, oauthVars, ownVars, burstVars, payVars,
                   swVars, lgVars, pfVars>>

\* getOrCreateUser: existing = await this.getUser(id); if (existing) return existing
UsGetOrCreate(c) ==
    /\ usCall[c].pc = "goc_get"
    /\ LET existing == usTable[usCall[c].id]
       IN  IF existing.present
           THEN UsDone(c, UsOk(existing))
           ELSE usCall' = [usCall EXCEPT ![c].pc = "create"]
    /\ UNCHANGED <<usNow, usTable, usStarted, pipeVars, acVars, tokVars, oauthVars, ownVars, burstVars, payVars,
                   swVars, lgVars, pfVars>>

UsCreateUser_replaces(c) ==
    /\ usCall[c].pc = "create"
    /\ LET id == usCall[c].id
           row == UsNewUser(usCall[c].firstName, usCall[c].role, usNow)
       IN  /\ usTable' = [usTable EXCEPT ![id] = row]
           /\ UsDone(c, UsOk(row))
    /\ UNCHANGED <<usNow, usStarted, pipeVars, acVars, tokVars, oauthVars, ownVars, burstVars, payVars,
                   swVars, lgVars, pfVars>>

\* createUser after await this.load(): the row is built and inserted; the primary
\* key rejects the INSERT for an id that has a row
UsCreateUser(c) ==
    /\ usCall[c].pc = "create"
    /\ LET id == usCall[c].id
           row == UsNewUser(usCall[c].firstName, usCall[c].role, usNow)
       IN  IF usTable[id].present
           THEN UsDone(c, UsError("already exists")) /\ UNCHANGED usTable
           ELSE /\ usTable' = [usTable EXCEPT ![id] = row]
                /\ UsDone(c, UsOk(row))
    /\ UNCHANGED <<usNow, usStarted, pipeVars, acVars, tokVars, oauthVars, ownVars, burstVars, payVars,
                   swVars, lgVars, pfVars>>

\* incrementUsage: user = await this.getUser(id); if (!user) throw; the update
UsIncrementRead(c) ==
    /\ usCall[c].pc = "inc_read"
    /\ LET user == usTable[usCall[c].id]
       IN  IF ~user.present
           THEN UsDone(c, UsError("not found"))
           ELSE usCall' = [usCall EXCEPT
                   ![c].pc = "upd_read",
                   ![c].updates = UsIncrementUpdate(user, usCall[c].tokens, usNow)]
    /\ UNCHANGED <<usNow, usTable, usStarted, pipeVars, acVars, tokVars, oauthVars, ownVars, burstVars, payVars,
                   swVars, lgVars, pfVars>>

\* updateUser: existing = await this.getUser(id); if (!existing) throw
UsUpdateRead(c) ==
    /\ usCall[c].pc = "upd_read"
    /\ LET existing == usTable[usCall[c].id]
       IN  IF ~existing.present
           THEN UsDone(c, UsError("not found"))
           ELSE usCall' = [usCall EXCEPT ![c].pc = "upd_write", ![c].existing = existing]
    /\ UNCHANGED <<usNow, usTable, usStarted, pipeVars, acVars, tokVars, oauthVars, ownVars, burstVars, payVars,
                   swVars, lgVars, pfVars>>

\* updateUser: merged, UPDATE users SET <every column> WHERE telegram_user_id,
\* return rowToRecord(row); incrementUsage returns nothing
UsUpdateWrite(c) ==
    /\ usCall[c].pc = "upd_write"
    /\ LET id == usCall[c].id
           merged == UsMerged(usCall[c].existing, usCall[c].updates, usNow)
       IN  /\ usTable' = IF usTable[id].present THEN [usTable EXCEPT ![id] = merged]
                         ELSE usTable
           /\ UsDone(c, IF usCall[c].op = "incrementUsage" THEN UsOk(UsAbsent)
                        ELSE UsOk(merged))
    /\ UNCHANGED <<usNow, usStarted, pipeVars, acVars, tokVars, oauthVars, ownVars, burstVars, payVars,
                   swVars, lgVars, pfVars>>

UsTick ==
    /\ usNow < StartTime + MaxUsTicks
    /\ usNow' = usNow + 1
    /\ UNCHANGED <<usTable, usCall, usStarted, pipeVars, acVars, tokVars, oauthVars, ownVars, burstVars, payVars,
                   swVars, lgVars, pfVars>>

NextUserStore ==
    \/ \E c \in UsSlots, req \in UsRequests : UsStart(c, req)
    \/ \E c \in UsSlots : UsGetOrCreate(c)
    \/ \E c \in UsSlots : UsCreateUser(c)
    \/ \E c \in UsSlots : UsIncrementRead(c)
    \/ \E c \in UsSlots : UsUpdateRead(c)
    \/ \E c \in UsSlots : UsUpdateWrite(c)
    \/ UsTick

SpecUserStore == InitUserStore /\ [][NextUserStore]_vars

\* the call in slot c takes the step
UsActs(c) == usCall'[c] # usCall[c] /\ usCall[c].pc \notin {"idle", "done"}

\* C28: createUser on an id that has a row ends with 'already exists', updateUser
\* and incrementUsage on an id without a row end with 'not found', and a call that
\* ends with an error leaves the table exactly as it was.
C28_FailingCallsChangeNothing ==
    [][\A c \in UsSlots :
          UsActs(c) =>
             LET call == usCall[c]
                 after == usCall'[c]
             IN  /\ (call.pc = "create" /\ usTable[call.id].present) =>
                       (after.pc = "done" /\ after.result = UsError("already exists"))
                 /\ (call.pc \in {"upd_read", "inc_read"} /\ ~usTable[call.id].present) =>
                       (after.pc = "done" /\ after.result = UsError("not found"))
                 /\ (after.pc = "done" /\ after.result.kind = "error") =>
                       usTable' = usTable]_vars

\* a createUser was refused for an id that has a row and an incrementUsage for an
\* id that has none
C28_Witness ==
    \E c1, c2 \in UsSlots :
        /\ usCall[c1].op = "createUser" /\ usCall[c1].result = UsError("already exists")
        /\ usCall[c2].op = "incrementUsage" /\ usCall[c2].result = UsError("not found")

\* C29: a getOrCreateUser that finds a row returns it and writes nothing; one whose
\* createUser finds no row inserts exactly that one row and returns it; and no step
\* of a getOrCreateUser call, overlapping or not, changes a row that exists.
C29_GetOrCreateNeverOverwrites ==
    [][\A c \in UsSlots :
          (UsActs(c) /\ usCall[c].op = "getOrCreateUser") =>
             LET call == usCall[c]
                 after == usCall'[c]
                 id == call.id
             IN  /\ (call.pc = "goc_get" /\ usTable[id].present) =>
                       /\ after.pc = "done"
                       /\ after.result = UsOk(usTable[id])
                       /\ usTable' = usTable
                 /\ (call.pc = "create" /\ ~usTable[id].present) =>
                       /\ usTable'[id].present
                       /\ after.result = UsOk(usTable'[id])
                       /\ Cardinality({u \in UsIds : usTable'[u].present})
                            = Cardinality({u \in UsIds : usTable[u].present}) + 1
                 /\ \A u \in UsIds : usTable[u].present => usTable'[u] = usTable[u]]_vars

\* two overlapping getOrCreateUser calls for an id without a row both found none:
\* one inserted the row, the other was refused, and the row is the first one's
C29_Witness ==
    \E c1, c2 \in UsSlots :
        /\ usCall[c1].op = "getOrCreateUser" /\ usCall[c2].op = "getOrCreateUser"
        /\ usCall[c1].id = usCall[c2].id
        /\ usCall[c1].result.kind = "ok"
        /\ usCall[c2].result = UsError("already exists")
        /\ usTable[usCall[c1].id] = usCall[c1].result.record

\* C30: the UPDATE of an updateUser call, made directly or by incrementUsage, sets
\* the fields its update names and updatedAt, leaves every other field of the
\* persisted row as it was, and updateUser returns the persisted row.
C30_UpdateFrame ==
    [][\A c \in UsSlots :
          (UsActs(c) /\ usCall[c].pc = "upd_write") =>
             LET call == usCall[c]
                 before == usTable[call.id]
                 row == usTable'[call.id]
             IN  /\ \A f \in call.updates.names : row[f] = call.updates.vals[f]
                 /\ row.updatedAt = usNow
                 /\ \A f \in DOMAIN before \ (call.updates.names \cup {"updatedAt"}) :
                       row[f] = before[f]
                 /\ call.op = "updateUser" => usCall'[c].result = UsOk(row)]_vars

(***************************************************************************)
(* SpecSweep: UserStore.checkExpiredTrials (SQLite user-store.ts) on a     *)
(* table of trial, expired and unlimited records, as time passes.          *)
(***************************************************************************)
MaxSweeps == 2
MaxSwTicks == 2

SwIds == {1, 2}

SwRow(role, trialExpiresAt, used, updatedAt) ==
    [present |-> TRUE, role |-> role, createdAt |-> 1, updatedAt |-> updatedAt,
     trialExpiresAt |-> trialExpiresAt, subscriptionExpiresAt |-> NULL,
     messagesUsedToday |-> used, lastMessageDate |-> Today0,
     totalMessagesUsed |-> used, totalTokensUsed |-> 0]

\* rows the table may hold: trials without an expiry, with one that has passed, that
\* is now, or that is still to come (fresh, or at the expired role's limit); other
\* roles with an expiry that has passed
SwRows ==
    { SwRow("trial", NULL, 0, NULL),
      SwRow("trial", StartTime - 1, 0, NULL),
      SwRow("trial", StartTime - 1, EXPIRED_MESSAGES_PER_DAY, NULL),
      SwRow("trial", StartTime, 0, NULL),
      SwRow("trial", StartTime + 1, 0, NULL),
      SwRow("expired", StartTime - 1, 0, StartTime - 1),
      SwRow("owner", StartTime - 1, 0, NULL),
      SwRow("subscriber", StartTime - 1, 0, NULL) }

\* WHERE role = 'trial' AND trial_expires_at IS NOT NULL AND trial_expires_at < ?
SweepMatches_inclusive(row, t) ==
    row.role = "trial" /\ row.trialExpiresAt # NULL /\ row.trialExpiresAt <= t

SweepMatches(row, t) ==
    row.role = "trial" /\ row.trialExpiresAt # NULL /\ row.trialExpiresAt < t

\* UPDATE users SET role = 'expired', updated_at = ? WHERE ...; result.changes
checkExpiredTrials(table, t) ==
    [table |-> [id \in DOMAIN table |->
                  IF SweepMatches(table[id], t)
                  THEN [table[id] EXCEPT !.role = "expired", !.updatedAt = t]
                  ELSE table[id]],
     changes |-> Cardinality({id \in DOMAIN table : SweepMatches(table[id], t)})]

NoSweep == [calls |-> 0, at |-> 0, changes |-> 0]

InitSweep ==
    /\ PipeIdle
    /\ AcIdle
    /\ TokIdle
    /\ OAuthIdle
    /\ OwnIdle
    /\ BurstIdle
    /\ PayIdle
    /\ UsIdle
    /\ LgIdle
    /\ PfIdle
    /\ swNow = StartTime
    /\ swTable \in [SwIds -> SwRows]
    /\ swLast = NoSweep

\* a call of checkExpiredTrials: one statement
Sweep ==
    /\ swLast.calls < MaxSweeps
    /\ LET result == checkExpiredTrials(swTable, swNow)
       IN  /\ swTable' = result.table
           /\ swLast' = [calls |-> swLast.calls + 1, at |-> swNow,
                         changes |-> result.changes]
    /\ UNCHANGED <<swNow, pipeVars, acVars, tokVars, oauthVars, ownVars, burstVars, payVars, usVars, lgVars, pfVars>>

SwTick ==
    /\ swNow < StartTime + MaxSwTicks
    /\ swNow' = swNow + 1
    /\ UNCHANGED <<swTable, swLast, pipeVars, acVars, tokVars, oauthVars, ownVars, burstVars, payVars, usVars, lgVars, pfVars>>

NextSweep == Sweep \/ SwTick

SpecSweep == InitSweep /\ [][NextSweep]_vars

\* the records the claim says a sweep at time t changes
SwDue(row, t) == row.role = "trial" /\ row.trialExpiresAt # NULL /\ row.trialExpiresAt < t

\* C31: a call of checkExpiredTrials gives role expired to exactly the trial records
\* whose trialExpiresAt is set and earlier than now, returns how many those are, and
\* leaves every other record as it was; a call right after another returns 0 and
\* changes nothing.
C31_SweepExpiresExactlyDueTrials ==
    [][swLast'.calls = swLast.calls + 1 =>
          /\ \A id \in SwIds :
                IF SwDue(swTable[id], swNow)
                THEN swTable'[id] = [swTable[id] EXCEPT !.role = "expired",
                                                        !.updatedAt = swNow]
                ELSE swTable'[id] = swTable[id]
          /\ swLast'.changes = Cardinality({id \in SwIds : SwDue(swTable[id], swNow)})
          /\ (swLast.calls > 0 /\ swLast.at = swNow) =>
                (swLast'.changes = 0 /\ swTable' = swTable)]_vars

\* a second call right after one that expired both records, one of them a trial
\* whose expiry had been the instant before
C31_Witness ==
    /\ swLast.calls = 2
    /\ swLast.changes = 0
    /\ swLast.at = StartTime + 1
    /\ \A id \in SwIds : swTable[id].role = "expired" /\ swTable[id].updatedAt = StartTime + 1
    /\ \E id \in SwIds : swTable[id].trialExpiresAt = StartTime

\* C39: for a trial record whose trialExpiresAt has passed, canSendMessage answers
\* the same (allowed or not) on the record as stored and on the record as a call of
\* checkExpiredTrials leaves it.
C39_SweepKeepsDecision ==
    [][swLast'.calls = swLast.calls + 1 =>
          \A id \in SwIds :
              SwDue(swTable[id], swNow) =>
                 canSendMessage(swTable'[id], swNow).allowed
                    = canSendMessage(swTable[id], swNow).allowed]_vars

(***************************************************************************)
(* SpecLegacy: UserStore.load with the migration of the legacy users.json, *)
(* over store instances that come and go on one data directory.            *)
(***************************************************************************)
MaxLgOps == 3
MaxLegacyEntries == 2

LgIds == {1, 2}

\* Number(record.telegramUserId): an integer, a finite number that is not an
\* integer (1.5), or NaN (the field is missing or not numeric)
LgInt(n) == [finite |-> TRUE, integer |-> TRUE, n |-> n]
LgFraction == [finite |-> TRUE, integer |-> FALSE, n |-> 0]
LgNaN == [finite |-> FALSE, integer |-> FALSE, n |-> 0]

\* an element of the parsed snapshot
LgEntry(object, id, role, firstName) ==
    [object |-> object, id |-> id, role |-> role, firstName |-> firstName]

\* null or a number; a well-formed vip; an object with an unknown role and a name
\* that is not a string; another object for id 1; an id of 1.5; no id
LegacyEntries ==
    { LgEntry(FALSE, LgNaN, "none", "none"),
      LgEntry(TRUE, LgInt(1), "vip", "Mapped"),
      LgEntry(TRUE, LgInt(2), "admin", "notstring"),
      LgEntry(TRUE, LgInt(1), "trial", "Legacy"),
      LgEntry(TRUE, LgFraction, "trial", "Half"),
      LgEntry(TRUE, LgNaN, "trial", "Anon") }

LgSeqs(n) == UNION {[1..k -> LegacyEntries] : k \in 0..n}

\* users.json: absent, not JSON, a JSON value that is no object, or entries (an
\* array, or the values of an object map)
LegacyFiles ==
    { [kind |-> k, entries |-> <<>>] : k \in {"absent", "garbage", "scalar"} }
    \cup { [kind |-> "entries", entries |-> es] : es \in LgSeqs(MaxLegacyEntries) }

LgAbsent == [present |-> FALSE, role |-> "trial", firstName |-> "none", origin |-> 0]
LgRow(role, firstName, origin) ==
    [present |-> TRUE, role |-> role, firstName |-> firstName, origin |-> origin]

\* normalizeLegacyRecord: null for what is no object or has no finite id; roles
\* outside the five become trial, names that are no strings are dropped
normalizeLegacyRecord(candidate) ==
    IF ~candidate.object \/ ~candidate.id.finite
    THEN [skip |-> TRUE, id |-> LgNaN, row |-> LgAbsent]
    ELSE [skip |-> FALSE, id |-> candidate.id,
          row |-> LgRow(IF candidate.role \in Roles THEN candidate.role ELSE "trial",
                        IF candidate.firstName = "notstring" THEN "none"
                        ELSE candidate.firstName, 0)]

RECURSIVE InsertAll(_, _, _)
\* the loop of stmt.run inside BEGIN ... COMMIT: the INTEGER PRIMARY KEY refuses an
\* id that is no integer and an id that has a row; i is the next entry
InsertAll(table, entries, i) ==
    IF i > Len(entries) THEN [failed |-> FALSE, table |-> table]
    ELSE LET rec == normalizeLegacyRecord(entries[i])
         IN  IF rec.skip THEN InsertAll(table, entries, i + 1)
             ELSE IF ~rec.id.integer \/ table[rec.id.n].present
             THEN [failed |-> TRUE, table |-> table]
             ELSE InsertAll([table EXCEPT ![rec.id.n] = [rec.row EXCEPT !.origin = i]],
                            entries, i + 1)

\* migrateLegacyJsonIfNeeded: what it leaves in the table, and whether it threw
migrateLegacyJsonIfNeeded(table, legacy) ==
    IF (\E id \in LgIds : table[id].present) \/ legacy.kind # "entries"
    THEN [failed |-> FALSE, table |-> table]
    ELSE LET done == InsertAll(table, legacy.entries, 1)
         IN  IF done.failed THEN [failed |-> TRUE, table |-> table] ELSE done

\* load(): nothing when this.loaded; else the migration, and loaded = true after it
LgLoad ==
    IF lgLoaded THEN [failed |-> FALSE, table |-> lgTable]
    ELSE migrateLegacyJsonIfNeeded(lgTable, lgLegacy)

\* the rows a load has inserted from the snapshot
LgImported(before, after) ==
    {i \in 1..Len(lgLegacy.entries) :
        \E id \in LgIds : ~before[id].present /\ after[id].present /\ after[id].origin = i}

LgCount(before, after) ==
    [i \in DOMAIN lgImports |->
        IF i \in LgImported(before, after) THEN lgImports[i] + 1 ELSE lgImports[i]]

InitLegacy ==
    /\ PipeIdle
    /\ AcIdle
    /\ TokIdle
    /\ OAuthIdle
    /\ OwnIdle
    /\ BurstIdle
    /\ PayIdle
    /\ UsIdle
    /\ SwIdle
    /\ PfIdle
    /\ lgTable = [id \in LgIds |-> LgAbsent]
    /\ lgLegacy \in LegacyFiles
    /\ lgOutcome = "none"
    /\ lgImports = [i \in 1..Len(lgLegacy.entries) |-> 0]
    /\ lgOps = 0
    /\ lgLoaded = FALSE

\* a store method: await this.load(), which may throw, then the method's own
\* statement, which leaves `table` and ends with `outcome`
LgOperation(table, outcome) ==
    /\ lgOps < MaxLgOps
    /\ lgOps' = lgOps + 1
    /\ IF LgLoad.failed
       THEN /\ lgOutcome' = "load_failed"
            /\ UNCHANGED <<lgTable, lgImports, lgLoaded>>
       ELSE /\ lgTable' = table
            /\ lgOutcome' = outcome
            /\ lgImports' = LgCount(lgTable, LgLoad.table)
            /\ lgLoaded' = TRUE
    /\ UNCHANGED <<lgLegacy, pipeVars, acVars, tokVars, oauthVars, ownVars, burstVars, payVars, usVars, swVars, pfVars>>

\* getUserCount(): load and SELECT COUNT(*)
LgGetUserCount == LgOperation(LgLoad.table, "ok")

\* createUser({telegramUserId: id, firstName: "New"})
LgCreateUser(id) ==
    IF LgLoad.table[id].present
    THEN LgOperation(LgLoad.table, "already_exists")
    ELSE LgOperation([LgLoad.table EXCEPT ![id] = LgRow("trial", "New", 0)], "ok")

\* updateUser(id, {firstName: "Jane"})
LgUpdateUser(id) ==
    IF LgLoad.table[id].present
    THEN LgOperation([LgLoad.table EXCEPT ![id].firstName = "Jane"], "ok")
    ELSE LgOperation(LgLoad.table, "not_found")

\* deleteUser(id): DELETE FROM users WHERE telegram_user_id = ?
LgDeleteUser(id) ==
    LgOperation([LgLoad.table EXCEPT ![id] = LgAbsent], "ok")

\* the process restarts: a new UserStore on the same directory, not loaded yet
LgNewInstance ==
    /\ lgLoaded
    /\ lgLoaded' = FALSE
    /\ UNCHANGED <<lgTable, lgLegacy, lgOutcome, lgImports, lgOps, pipeVars, acVars, tokVars, oauthVars, ownVars, burstVars, payVars, usVars, swVars, pfVars>>

NextLegacy ==
    \/ LgGetUserCount
    \/ \E id \in LgIds : LgCreateUser(id)
    \/ \E id \in LgIds : LgUpdateUser(id)
    \/ \E id \in LgIds : LgDeleteUser(id)
    \/ LgNewInstance

SpecLegacy == InitLegacy /\ [][NextLegacy]_vars

\* C32: whatever users.json holds, no call of load() raises: every store method
\* gets past its load.
C32_LoadNeverRaises == lgOutcome # "load_failed"

\* C33: no legacy entry is inserted into the table more than once, over all loads.
C33_ImportedAtMostOnce == \A i \in DOMAIN lgImports : lgImports[i] <= 1

\* a load that finds a record inserts nothing from the snapshot and changes no record
C33_GatedOnEmptyTable ==
    [][(lgOps' = lgOps + 1 /\ \E id \in LgIds : lgTable[id].present) =>
          (lgImports' = lgImports /\ LgLoad.table = lgTable)]_vars

(***************************************************************************)
(* SpecConfig: resolveGoogleOAuthRuntimeConfig (google-oauth.ts) on every  *)
(* combination of present, blank, absent and unusable settings.            *)
(***************************************************************************)
\* a setting: undefined, only whitespace, a usable value, or (for URLs) text that
\* new URL() rejects
CfgTexts == {"absent", "blank", "value"}
CfgUrls == {"absent", "blank", "value", "invalid"}

\* raw?.trim() ?? "" is a non-empty string
CfgPresent(raw) == raw \notin {"absent", "blank"}

\* normalizeBaseUrl(raw): null for nothing, whitespace and what is no http(s) URL
normalizeBaseUrl(raw) == IF raw = "value" THEN "url" ELSE "null"

ConfigInputs ==
    [clientId : CfgTexts, clientSecret : CfgTexts,
     publicUrl : CfgUrls, envPublicUrl : {"absent", "value"},
     railwayStaticUrl : {"absent", "value"}, railwayPublicDomain : {"absent", "value"},
     redirectUri : CfgUrls]

\* the settings an error message names
CfgOk == [ok |-> TRUE, names |-> {}]
CfgError(names) == [ok |-> FALSE, names |-> names]

resolveGoogleOAuthRuntimeConfig(in) ==
    IF ~CfgPresent(in.clientId) \/ ~CfgPresent(in.clientSecret)
    THEN CfgError({"clientId", "clientSecret"})
    ELSE IF \A src \in {in.publicUrl, in.envPublicUrl, in.railwayStaticUrl,
                        in.railwayPublicDomain} : normalizeBaseUrl(src) = "null"
    THEN CfgError({"publicUrl"})
    ELSE IF CfgPresent(in.redirectUri) /\ normalizeBaseUrl(in.redirectUri) = "null"
    THEN CfgError({"redirectUri"})
    ELSE CfgOk

InitConfig ==
    /\ PipeIdle
    /\ AcIdle
    /\ TokIdle
    /\ OAuthIdle
    /\ OwnIdle
    /\ BurstIdle
    /\ PayIdle
    /\ UsIdle
    /\ SwIdle
    /\ LgIdle
    /\ pfIn \in ConfigInputs
    /\ pfOut = <<>>

ResolveConfig ==
    /\ pfOut = <<>>
    /\ pfOut' = resolveGoogleOAuthRuntimeConfig(pfIn)
    /\ UNCHANGED <<pfIn, pipeVars, acVars, tokVars, oauthVars, ownVars, burstVars, payVars, usVars, swVars, lgVars>>

NextConfig == ResolveConfig

SpecConfig == InitConfig /\ [][NextConfig]_vars

\* the values the claim counts as missing
CfgMissing(in) ==
    (IF CfgPresent(in.clientId) THEN {} ELSE {"clientId"})
    \cup (IF CfgPresent(in.clientSecret) THEN {} ELSE {"clientSecret"})
    \cup (IF \E src \in {in.publicUrl, in.envPublicUrl, in.railwayStaticUrl,
                         in.railwayPublicDomain} : normalizeBaseUrl(src) # "null"
          THEN {} ELSE {"publicUrl"})

\* C34: the result is ok only when client id, client secret and a public base URL
\* are all present, and when one is missing the error names exactly the missing ones.
C34_ErrorNamesExactlyMissing ==
    pfOut # <<>> =>
       /\ pfOut.ok => CfgMissing(pfIn) = {}
       /\ CfgMissing(pfIn) # {} => (~pfOut.ok /\ pfOut.names = CfgMissing(pfIn))

(***************************************************************************)
(* SpecAdminIds: the two copies of parseAdminTelegramIds (owner-config.ts  *)
(* and the subscription store) on every short string.                      *)
(***************************************************************************)
MaxAdminLen == 3

\* the characters of ADMIN_TELEGRAM_IDS: two digits, a letter, a blank, the comma,
\* and "N", which stands for a run of 400 digits 9
AdmChars == {"1", "2", "a", " ", ",", "N"}
AdmDigits == {"1", "2", "N"}

\* the values of type number that occur
NaN == 0 - 1
Infinity == 0 - 2

AdmInputs ==
    {[defined |-> FALSE, text |-> <<>>]}
    \cup {[defined |-> TRUE, text |-> t] : t \in UNION {[1..k -> AdmChars] : k \in 0..MaxAdminLen}}

RECURSIVE AdmSplit(_, _)
\* text.split(","): cur is the entry being read
AdmSplit(text, cur) ==
    IF text = <<>> THEN <<cur>>
    ELSE IF Head(text) = "," THEN <<cur>> \o AdmSplit(Tail(text), <<>>)
    ELSE AdmSplit(Tail(text), Append(cur, Head(text)))

RECURSIVE AdmTrim(_)
\* String.prototype.trim
AdmTrim(text) ==
    IF text = <<>> THEN text
    ELSE IF Head(text) = " " THEN AdmTrim(Tail(text))
    ELSE IF text[Len(text)] = " " THEN AdmTrim(SubSeq(text, 1, Len(text) - 1))
    ELSE text

RECURSIVE AdmParseDigits(_, _)
\* Number.parseInt(text, 10) from the first digit on: the digits up to the first
\* character that is not one; a value beyond the largest double becomes Infinity
AdmParseDigits(text, acc) ==
    IF text = <<>> \/ Head(text) \notin AdmDigits THEN acc
    ELSE IF Head(text) = "N" \/ acc = Infinity THEN AdmParseDigits(Tail(text), Infinity)
    ELSE AdmParseDigits(Tail(text),
             (IF acc = NaN THEN 0 ELSE acc * 10) + (IF Head(text) = "1" THEN 1 ELSE 2))

AdmParseInt(text) == AdmParseDigits(AdmTrim(text), NaN)

\* .split(",").map(trim).filter(id => id !== "").map(id => Number.parseInt(id, 10))
AdmParsed(text) ==
    LET entries == SelectSeq([i \in 1..Len(AdmSplit(text, <<>>)) |->
                                AdmTrim(AdmSplit(text, <<>>)[i])],
                             LAMBDA e : e # <<>>)
    IN  [i \in 1..Len(entries) |-> AdmParseInt(entries[i])]

\* owner-config.ts: the last filter is !Number.isNaN(id)
parseAdminTelegramIds(envValue) ==
    IF ~envValue.defined \/ AdmTrim(envValue.text) = <<>> THEN <<>>
    ELSE SelectSeq(AdmParsed(envValue.text), LAMBDA id : id # NaN)

\* subscription store: the last filter is Number.isFinite(id)
storeParseAdminTelegramIds(envValue) ==
    IF ~envValue.defined \/ AdmTrim(envValue.text) = <<>> THEN <<>>
    ELSE SelectSeq(AdmParsed(envValue.text), LAMBDA id : id # NaN /\ id # Infinity)

InitAdminIds ==
    /\ PipeIdle
    /\ AcIdle
    /\ TokIdle
    /\ OAuthIdle
    /\ OwnIdle
    /\ BurstIdle
    /\ PayIdle
    /\ UsIdle
    /\ SwIdle
    /\ LgIdle
    /\ pfIn \in AdmInputs
    /\ pfOut = <<>>

ParseAdminIds ==
    /\ pfOut = <<>>
    /\ pfOut' = <<[owner |-> parseAdminTelegramIds(pfIn),
                   store |-> storeParseAdminTelegramIds(pfIn)]>>
    /\ UNCHANGED <<pfIn, pipeVars, acVars, tokVars, oauthVars, ownVars, burstVars, payVars, usVars, swVars, lgVars>>

NextAdminIds == ParseAdminIds

SpecAdminIds == InitAdminIds /\ [][NextAdminIds]_vars

\* an entry is numeric when, trimmed, it is a non-empty run of digits
AdmNumeric(entry) ==
    AdmTrim(entry) # <<>> /\ \A i \in 1..Len(AdmTrim(entry)) : AdmTrim(entry)[i] \in AdmDigits

\* the list the claim describes: the integers of the numeric entries, in order
AdmExpected(envValue) ==
    IF ~envValue.defined THEN <<>>
    ELSE LET numeric == SelectSeq(AdmSplit(envValue.text, <<>>), LAMBDA e : AdmNumeric(e))
         IN  [i \in 1..Len(numeric) |-> AdmParseInt(numeric[i])]

\* C35: the result is, in input order, exactly the integers of the entries that are
\* numeric after trimming, and both copies of the function return the same list.
C35_ExactlyNumericEntries ==
    pfOut # <<>> =>
       /\ pfOut[1].owner = AdmExpected(pfIn)
       /\ pfOut[1].store = pfOut[1].owner

(***************************************************************************)
(* The role policy table and the expiry predicates (user-roles.ts), under  *)
(* SpecAccess.                                                             *)
(***************************************************************************)
RoleLimits(messagesPerDay, canUseTools, canUseWebSearch, modelTier) ==
    [messagesPerDay |-> messagesPerDay, canUseTools |-> canUseTools,
     canUseWebSearch |-> canUseWebSearch, modelTier |-> modelTier]

getRoleLimits_trialTools(role) ==
    CASE role = "owner" -> RoleLimits(Unlimited, TRUE, TRUE, "best")
      [] role = "vip" -> RoleLimits(Unlimited, TRUE, TRUE, "best")
      [] role = "subscriber" -> RoleLimits(Unlimited, TRUE, TRUE, "best")
      [] role = "trial" -> RoleLimits(Limited(TRIAL_MESSAGES_PER_DAY), TRUE, TRUE, "medium")
      [] role = "expired" -> RoleLimits(Limited(EXPIRED_MESSAGES_PER_DAY), FALSE, FALSE, "basic")

getRoleLimits(role) ==
    CASE role = "owner" -> RoleLimits(Unlimited, TRUE, TRUE, "best")
      [] role = "vip" -> RoleLimits(Unlimited, TRUE, TRUE, "best")
      [] role = "subscriber" -> RoleLimits(Unlimited, TRUE, TRUE, "best")
      [] role = "trial" -> RoleLimits(Limited(TRIAL_MESSAGES_PER_DAY), FALSE, TRUE, "medium")
      [] role = "expired" -> RoleLimits(Limited(EXPIRED_MESSAGES_PER_DAY), FALSE, FALSE, "basic")

\* the table with `trialLimit` messages per day for a trial
RolePolicy(role, trialLimit) ==
    CASE role \in {"owner", "vip", "subscriber"} -> RoleLimits(Unlimited, TRUE, TRUE, "best")
      [] role = "trial" -> RoleLimits(Limited(trialLimit), FALSE, TRUE, "medium")
      [] role = "expired" -> RoleLimits(Limited(2), FALSE, FALSE, "basic")

hasActiveTrial(user, t) ==
    IF user.role # "trial" THEN FALSE
    ELSE IF ~Truthy(user.trialExpiresAt) THEN FALSE
    ELSE t < user.trialExpiresAt

\* hasActiveSubscription(user) at Date.now() = t
hasActiveSubscription(user, t) ==
    IF user.role # "subscriber" THEN FALSE
    ELSE IF ~Truthy(user.subscriptionExpiresAt) THEN FALSE
    ELSE t < user.subscriptionExpiresAt

\* C40: at the instant of the decision, for a trial with trialExpiresAt set the
\* answer is Deny(trial_expired) exactly when hasActiveTrial is false, and for a
\* subscriber with subscriptionExpiresAt set it is Deny(subscription_expired)
\* exactly when hasActiveSubscription is false.
C40_ExpiryPredicatesAgree ==
    AcJustChecked =>
       /\ (acUser.role = "trial" /\ acUser.trialExpiresAt # NULL) =>
             ((acResult.reason = "trial_expired") <=> ~hasActiveTrial(acUser, acCheckedAt))
       /\ (acUser.role = "subscriber" /\ acUser.subscriptionExpiresAt # NULL) =>
             ((acResult.reason = "subscription_expired")
                 <=> ~hasActiveSubscription(acUser, acCheckedAt))

(***************************************************************************)
(* SpecFaults: the message-handling tasks of Spec with a store whose calls *)
(* may reject (disk full, database locked) at any of their awaits.         *)
(***************************************************************************)
\* the task is awaiting getUser, createUser, updateUser or incrementUsage
InStoreCall(tk) ==
    tk.kind = "private" /\ tk.pc \in {"get", "create", "inc_read", "upd_read", "upd_write"}

\* the awaited store call rejects before its statement has run: control enters the
\* catch block, which logs the error
StoreFails(t) ==
    /\ InStoreCall(task[t])
    /\ task' = [task EXCEPT ![t].pc = "caught"]
    /\ UNCHANGED <<now, db, trialBurstState, admittedToday, incDone, db0, nStarted, acVars, extVars>>

CatchContinues_blocks(t) ==
    /\ task[t].pc = "caught"
    /\ Return(t)
    /\ UNCHANGED <<now, db, trialBurstState, admittedToday, incDone, db0, nStarted, acVars, extVars>>

\* after the catch block the handler goes on to dispatchTelegramMessage
CatchContinues(t) ==
    /\ task[t].pc = "caught"
    /\ Caught(t)
    /\ UNCHANGED <<now, db, trialBurstState, admittedToday, incDone, db0, nStarted, acVars, extVars>>

\* the table when the run starts: empty, or one trial record (of a sender, or of an
\* admin whose role drifted)
FaultTables ==
    {f \in InitTables : \A u \in UserIds : f[u].present => f[u].role = "trial"}

InitFaults == InitPipe(StartTime, FaultTables, {<<>>})

NextFaults ==
    \/ \E t \in Tasks, uid \in UserIds : Start(t, uid, "private")
    \/ \E t \in Tasks : GetUser(t)
    \/ \E t \in Tasks : CreateUser(t)
    \/ \E t \in Tasks, delivered \in BOOLEAN : SendNotice(t, delivered)
    \/ \E t \in Tasks : IncrementRead(t)
    \/ \E t \in Tasks : UpdateRead(t)
    \/ \E t \in Tasks : UpdateWrite(t)
    \/ \E t \in Tasks : Dispatch(t)
    \/ \E t \in Tasks : StoreFails(t)
    \/ \E t \in Tasks : CatchContinues(t)

SpecFaults == InitFaults /\ [][NextFaults]_vars

\* C37: when a store call of the access-control block rejects, nothing is written
\* and no counter is incremented, no denial or warning is sent, and the handler's
\* next step hands the message, not marked as denied, to dispatchTelegramMessage,
\* which passes it to the agent.
C37_FailOpenOnStoreError ==
    [][\A t \in Tasks :
          /\ (task'[t].pc = "caught" /\ task[t].pc # "caught") =>
                (InStoreCall(task[t]) /\ db' = db /\ incDone' = incDone)
          /\ (task[t].pc = "caught" /\ task'[t] # task[t]) =>
                (task'[t].pc = "dispatch" /\ ~task'[t].denied /\ db' = db
                   /\ incDone' = incDone)
          /\ (task[t].pc = "dispatch" /\ ~task[t].denied /\ task'[t] # task[t]) =>
                admittedToday'[task[t].uid] = admittedToday[task[t].uid] + 1]_vars

\* the incrementUsage of an allowed message rejected at its UPDATE: the record is as
\* it was when the run started and the message is about to be dispatched
C37_Witness ==
    \E t \in Tasks :
        /\ task[t].pc = "dispatch"
        /\ task[t].updates.kind = "usage"
        /\ task[t].accessCheck.allowed
        /\ ~task[t].denied
        /\ db0[task[t].uid].present
        /\ db[task[t].uid] = db0[task[t].uid]
        /\ incDone[task[t].uid].calls = 0

\* C38: once an id of the admin list has a record, the record's persisted role is
\* owner after every handler that touches it has completed; here the handler is
\* successful_payment for a priced invoice whose userId is that admin's.
C38_AdminRecordIsOwner ==
    \A a \in PayAdminIds :
        (PayHandled("payment") /\ PayPriced /\ payReq.payload.userId = a
            /\ payTable[a].present)
        => payTable[a].role = "owner"

====
